---- MODULE Spec2Model ----
(***************************************************************************)
(* markon: a local Markdown preview server.                                *)
(*                                                                         *)
(*   - SpecIndex models SearchIndex (src/src/search.rs): the tantivy       *)
(*     writer with its queued operations, the committed index, the         *)
(*     reader's snapshot, index_directory, update_file and delete_file,    *)
(*     with the files on disk changing underneath.                         *)
(*   - SpecPath models handle_path (src/src/server.rs): the request path   *)
(*     is decoded, joined under start_dir, canonicalized against a file    *)
(*     system with symlinks, checked for containment and served.           *)
(*   - SpecSearch models search and search_handler, SpecWatch the file     *)
(*     watcher that feeds the index (src/src/search.rs).                   *)
(*   - SpecHub models handle_socket (src/src/server.rs): the sessions of   *)
(*     the shared annotations, the sqlite store behind its Mutex and the   *)
(*     broadcast channel.                                                  *)
(*   - SpecReload models watch (src/markon/srcs/watcher.rs): the debounced *)
(*     changes of the previewed file, the shared HTML behind its RwLock    *)
(*     and the reload signal.                                              *)
(***************************************************************************)
EXTENDS Integers, Sequences, FiniteSets, TLC

VARIABLES
    disk,       \* the files under start_dir: path -> content, Absent or Unreadable
    writer,     \* IndexWriter: the operations queued since the last successful commit
    committed,  \* Index: the documents of the last successful commit, in document order
    reader,     \* IndexReader: the committed state the searchers currently see
    pc,         \* where the thread that owns the index calls is
    walk,       \* index_directory: how many entries of the walk are done
    call,       \* the update_file / delete_file call in flight, or the last one
    res,        \* its result: "running", "ok" or "err" ("none" before the first call)
    scan,       \* index_directory: what the walk found at each path it came to
    faults      \* number of failures of the engine (add_document, commit, reload)
                \* and of the watcher's backend so far

indexVars == <<disk, writer, committed, reader, pc, walk, call, res, scan, faults>>

VARIABLES
    link,       \* the file system: where the symlink start_dir/link points now
    checked,    \* the request handle_path has checked and not yet served
    response    \* the answer of handle_path that is on its way to the client

pathVars == <<link, checked, response>>

VARIABLES
    events      \* the watcher's channel: the events not yet taken by the index thread

VARIABLES
    enable_search,  \* AppState: search is switched on
    search_index,   \* AppState: "Some" when an index was built, else "None"
    found           \* the last call of search or search_handler and what it gave

searchVars == <<enable_search, search_index, found>>

VARIABLES
    annotations,    \* sqlite table annotations: id -> its row, or NoRow
    viewed_state,   \* sqlite table viewed_state: file_path -> its state, or NoState
    db,             \* the Mutex around the connection: "free", its holder, or "poisoned"
    task,           \* handle_socket of each session: where it is
    file_paths,     \* handle_socket: file_path, the file each session declared
    rx,             \* the session's broadcast receiver: the events it has not taken yet
    sender,         \* the session's socket: what was sent to the client on this connection
    receiver,       \* the session's socket: the frame of the client not yet taken
    job,            \* recv_task: the mutation in hand and what is left to do for it
    stderr,         \* the last line of the server on stderr that tells of a failure
    budget          \* number of frames the clients may still send after their first ones

hubVars == <<annotations, viewed_state, db, task, file_paths, rx, sender,
             receiver, job, stderr, budget>>

VARIABLES
    previewed,      \* the file at path_buf: its revision and whether it can be read
    debounced,      \* the debouncer: the changes of the file it has not delivered yet
    shared_html,    \* the rendered HTML behind the RwLock
    callback,       \* the debouncer's callback: what it has read and what is left to do
    signals,        \* the reload channel: the signals the viewer has not taken yet
    viewer          \* a viewer: the last signal it took and the HTML it fetched last

reloadVars == <<previewed, debounced, shared_html, callback, signals, viewer>>

vars == <<indexVars, events, pathVars, searchVars, hubVars, reloadVars>>

\* what the index calls leave alone (the watcher's channel is not among
\* them: the thread that makes the calls takes the events from it)
nonIndexVars == <<pathVars, searchVars, hubVars, reloadVars>>

nonPathVars == <<indexVars, events, searchVars, hubVars, reloadVars>>

nonSearchVars == <<indexVars, events, pathVars, hubVars, reloadVars>>

nonHubVars == <<indexVars, events, pathVars, searchVars, reloadVars>>

nonReloadVars == <<indexVars, events, pathVars, searchVars, hubVars>>

----------------------------------------------------------------------------
(* std::path: a path is a flag and a sequence of components; a component   *)
(* is a name split into stem and extension, the way file_stem() and        *)
(* extension() split it.                                                   *)

NoExt == ""

Name(stem, ext) == [stem |-> stem, ext |-> ext]

AbsPath(comps) == [abs |-> TRUE, comps |-> comps]

RelPath(comps) == [abs |-> FALSE, comps |-> comps]

\* Path::extension / Path::file_stem of the last component
extension(path) ==
    IF path.comps = <<>> THEN NoExt ELSE path.comps[Len(path.comps)].ext

file_stem(path) ==
    IF path.comps = <<>> THEN "" ELSE path.comps[Len(path.comps)].stem

\* Path::strip_prefix: component-wise; <<FALSE, _>> is Err(StripPrefixError)
strip_prefix(path, base) ==
    IF /\ path.abs = base.abs
       /\ Len(base.comps) <= Len(path.comps)
       /\ SubSeq(path.comps, 1, Len(base.comps)) = base.comps
    THEN <<TRUE, RelPath(SubSeq(path.comps, Len(base.comps) + 1, Len(path.comps)))>>
    ELSE <<FALSE, path>>

\* Path::starts_with: whole components, not characters
starts_with(path, base) == strip_prefix(path, base)[1]

\* Path::join: an absolute argument replaces the base
join(base, path) ==
    IF path.abs THEN path ELSE [abs |-> base.abs, comps |-> base.comps \o path.comps]

CompString(c) == IF c.ext = NoExt THEN c.stem ELSE c.stem \o "." \o c.ext

RECURSIVE JoinComps(_)
JoinComps(comps) ==
    IF comps = <<>> THEN ""
    ELSE IF Len(comps) = 1 THEN CompString(comps[1])
    ELSE CompString(comps[1]) \o "/" \o JoinComps(Tail(comps))

\* to_string_lossy().to_string()
PathString(path) == (IF path.abs THEN "/" ELSE "") \o JoinComps(path.comps)

----------------------------------------------------------------------------
(* The directory being served and the files that may exist under it.       *)

start_dir == AbsPath(<<Name("root", NoExt)>>)

FileA    == AbsPath(<<Name("root", NoExt), Name("a", "md")>>)

FileSubA == AbsPath(<<Name("root", NoExt), Name("sub", NoExt), Name("a", "md")>>)

FileN    == AbsPath(<<Name("root", NoExt), Name("n", "txt")>>)

\* the order in which WalkDir yields the entries that exist
WalkOrder == <<FileA, FileN, FileSubA>>

Files == {WalkOrder[i] : i \in 1..Len(WalkOrder)}

\* file contents: a sequence of lines; hash = the line starts with '#'
Line(hash, text) == [hash |-> hash, text |-> text]

ContentV1 == <<Line(TRUE, "Intro"), Line(FALSE, "v1")>>

ContentV2 == <<Line(FALSE, "v2")>>

Contents == {ContentV1, ContentV2}

NoContent == <<>>

\* what is at a path of the disk
File(content) == [kind |-> "file", content |-> content]

Absent == [kind |-> "absent", content |-> NoContent]

\* exists, but fs::read_to_string fails: not UTF-8, no permission, a directory
Unreadable == [kind |-> "unreadable", content |-> NoContent]

DiskValues == {File(c) : c \in Contents} \cup {Absent, Unreadable}

\* fs::read_to_string(path) is Ok
Readable(v) == v.kind = "file"

----------------------------------------------------------------------------
(* Documents and the tantivy writer.                                       *)

\* the key of a document: the path relative to start_dir, as a string
relative_path(path) == PathString(strip_prefix(path, start_dir)[2])

\* first line that starts with '#', without the '#'s; else the file name
Title(content, file_name) ==
    IF \E i \in 1..Len(content) : content[i].hash
    THEN content[CHOOSE i \in 1..Len(content) :
                    /\ content[i].hash
                    /\ \A j \in 1..(i - 1) : ~content[j].hash].text
    ELSE file_name

Document(key, path, content) ==
    [path      |-> key,
     file_name |-> file_stem(path),
     title     |-> Title(content, file_stem(path)),
     content   |-> content]

\* index_file: the document it adds for a walked file
IndexFileDoc(path, content) == Document(relative_path(path), path, content)

\* update_file: the delete term and the document it queues
UpdateFileTerm_Unstripped(path) == PathString(path)

UpdateFileTerm(path) == relative_path(path)

UpdateFileDeletes_Forgotten(path) == <<>>

UpdateFileDeletes(path) == <<[op |-> "delete", term |-> UpdateFileTerm(path)]>>

UpdateFileDoc(path, content) == Document(relative_path(path), path, content)

\* delete_file: the delete term it queues
DeleteFileTerm_Unstripped(path) == PathString(path)

DeleteFileTerm(path) == relative_path(path)

\* the files index_directory and update_file accept
IsMarkdown_AnyExtension(path) == extension(path) # NoExt

IsMarkdown(path) == extension(path) = "md"

DeleteOp(term) == [op |-> "delete", term |-> term]

AddOp(doc) == [op |-> "add", doc |-> doc]

\* "path" is a STRING field: a term matches the whole stored value only
TermMatches(doc, term) == doc.path = term

\* a commit applies the queued operations in opstamp order: a delete removes
\* every matching document queued or committed before it
RECURSIVE ApplyOps(_, _)
ApplyOps(docs, ops) ==
    IF ops = <<>> THEN docs
    ELSE LET o == Head(ops)
         IN  ApplyOps(IF o.op = "delete"
                      THEN SelectSeq(docs, LAMBDA d : ~TermMatches(d, o.term))
                      ELSE Append(docs, o.doc),
                      Tail(ops))

\* what a failed commit may leave queued: everything, or the deletes alone
\* (the delete queue outlives the indexing workers)
DeletesOf(ops) == SelectSeq(ops, LAMBDA o : o.op = "delete")

AfterFailedCommit(ops) == {ops, DeletesOf(ops)}

\* a commit that fails after it has published the deletes
FailedCommit_DeletesApplied(docs, ops) == ApplyOps(docs, DeletesOf(ops))

\* what a commit that fails leaves of the committed index: meta.json is
\* written last, so the index is the one of the commit before
FailedCommit(docs, ops) == docs

\* the words a query term is matched against: file_name, title and content
Tokens(doc) ==
    {doc.file_name, doc.title} \cup {doc.content[i].text : i \in 1..Len(doc.content)}

QueryTerms == {"v1", "v2", "Intro", "a", "n"}

\* search: the hits of a one-word query in the reader's snapshot, in document order
Hits(snapshot, q) == SelectSeq(snapshot, LAMBDA d : q \in Tokens(d))

\* number of documents of a snapshot stored under a key
Entries(snapshot, key) == Len(SelectSeq(snapshot, LAMBDA d : d.path = key))

----------------------------------------------------------------------------
(* SearchIndex: construction (new, index_directory) and the calls of the   *)
(* thread that feeds it (update_file, delete_file).                        *)

\* how many failures of the engine (add_document, commit, reload) and of
\* the watcher's backend a run may see
MaxFaults == 1

\* a call: pred relates it to the call before it, before and base are the
\* reader's snapshot and the committed index it started from (kept while it runs)
Call(op, path, content) ==
    [op |-> op, path |-> path, content |-> content,
     pred |-> IF call.op = "update" /\ res = "ok" /\ call.path = path
                 /\ IsMarkdown(path)
              THEN (IF op = "update" /\ call.content = content
                    THEN "same_update" ELSE "same_path")
              ELSE "other",
     before |-> reader, base |-> committed]

Done(c) == [c EXCEPT !.before = <<>>, !.base = <<>>]

NoCall == [op |-> "none", path |-> start_dir, content |-> NoContent,
           pred |-> "other", before |-> <<>>, base |-> <<>>]

\* index_directory, what it does with one entry of the walk: an entry that does
\* not exist is not yielded, another extension is filtered out, a file that
\* cannot be read is skipped, and only the rest is handed to index_file
WalkEntry_AbortOnReadError(path, value) ==
    IF value = Absent \/ extension(path) # "md" THEN "none"
    ELSE IF value.kind # "file" THEN "abort"
    ELSE "added"

WalkEntry(path, value) ==
    IF value = Absent \/ ~IsMarkdown(path) THEN "none"
    ELSE IF ~Readable(value) THEN "skipped"
    ELSE "added"

NoScan == [path \in Files |-> "unvisited"]

IndexInit ==
    /\ disk \in [Files -> DiskValues]
    /\ disk[FileN] = File(ContentV1)
    /\ writer = <<>>
    /\ committed = <<>>
    /\ reader = <<>>
    /\ pc = "walk"
    /\ walk = 0
    /\ call = NoCall
    /\ res = "none"
    /\ scan = NoScan
    /\ faults = 0

\* index_directory, one entry of the walk
IndexDirectoryStep ==
    /\ pc = "walk"
    /\ walk < Len(WalkOrder)
    /\ LET path == WalkOrder[walk + 1]
           todo == WalkEntry(path, disk[path])
       IN  /\ writer' = IF todo = "added"
                        THEN Append(writer, AddOp(IndexFileDoc(path, disk[path].content)))
                        ELSE writer
           /\ scan' = [scan EXCEPT ![path] = disk[path].kind]
           /\ pc' = IF todo = "abort" THEN "aborted" ELSE pc
    /\ walk' = walk + 1
    /\ UNCHANGED <<disk, committed, reader, call, res, faults>>
    /\ UNCHANGED <<events, nonIndexVars>>

\* index_file's add_document fails: `?` ends the walk and new() returns the error
IndexDirectoryAddFails ==
    /\ pc = "walk"
    /\ walk < Len(WalkOrder)
    /\ faults < MaxFaults
    /\ LET path == WalkOrder[walk + 1]
       IN  WalkEntry(path, disk[path]) = "added"
    /\ pc' = "failed"
    /\ faults' = faults + 1
    /\ UNCHANGED <<disk, writer, committed, reader, walk, call, res, scan>>
    /\ UNCHANGED <<events, nonIndexVars>>

IndexDirectoryCommit ==
    /\ pc = "walk"
    /\ walk = Len(WalkOrder)
    /\ \/ /\ committed' = ApplyOps(committed, writer)
          /\ writer' = <<>>
          /\ pc' = "walk_reload"
          /\ UNCHANGED faults
       \/ /\ faults < MaxFaults
          /\ pc' = "failed"
          /\ faults' = faults + 1
          /\ UNCHANGED <<writer, committed>>
    /\ UNCHANGED <<disk, reader, walk, call, res, scan>>
    /\ UNCHANGED <<events, nonIndexVars>>

IndexDirectoryReload ==
    /\ pc = "walk_reload"
    /\ \/ /\ reader' = committed
          /\ pc' = "idle"
          /\ UNCHANGED faults
       \/ /\ faults < MaxFaults
          /\ pc' = "failed"
          /\ faults' = faults + 1
          /\ UNCHANGED reader
    /\ scan' = NoScan
    /\ UNCHANGED <<disk, writer, committed, walk, call, res>>
    /\ UNCHANGED <<events, nonIndexVars>>

\* update_file with a commit between delete_term and add_document
UpdateFile_CommitAfterDelete(path) ==
    /\ pc = "idle"
    /\ IsMarkdown(path)
    /\ Readable(disk[path])
    /\ committed' = ApplyOps(committed, writer \o UpdateFileDeletes(path))
    /\ writer' = <<AddOp(UpdateFileDoc(path, disk[path].content))>>
    /\ pc' = "update_commit"
    /\ call' = Call("update", path, disk[path].content)
    /\ res' = "running"
    /\ UNCHANGED <<disk, reader, walk, scan, faults>>
    /\ UNCHANGED nonIndexVars

\* update_file up to the commit: extension check, read, delete_term, add_document
UpdateFile(path) ==
    /\ pc = "idle"
    /\ IF ~IsMarkdown(path)
       THEN /\ call' = Done(Call("update", path, NoContent))
            /\ res' = "ok"
            /\ UNCHANGED <<writer, pc, faults>>
       ELSE IF ~Readable(disk[path])
       THEN /\ call' = Done(Call("update", path, NoContent))
            /\ res' = "err"
            /\ UNCHANGED <<writer, pc, faults>>
       ELSE LET content == disk[path].content
                queued  == writer \o UpdateFileDeletes(path)
            IN  \/ /\ writer' = Append(queued, AddOp(UpdateFileDoc(path, content)))
                   /\ pc' = "update_commit"
                   /\ call' = Call("update", path, content)
                   /\ res' = "running"
                   /\ UNCHANGED faults
                \/ /\ faults < MaxFaults
                   /\ writer' = queued
                   /\ faults' = faults + 1
                   /\ call' = Done(Call("update", path, content))
                   /\ res' = "err"
                   /\ UNCHANGED pc
    /\ UNCHANGED <<disk, committed, reader, walk, scan>>
    /\ UNCHANGED nonIndexVars

UpdateFileCommit ==
    /\ pc = "update_commit"
    /\ \/ /\ committed' = ApplyOps(committed, writer)
          /\ writer' = <<>>
          /\ pc' = "update_reload"
          /\ UNCHANGED <<call, res, faults>>
       \/ /\ faults < MaxFaults
          /\ writer' \in AfterFailedCommit(writer)
          /\ faults' = faults + 1
          /\ pc' = "idle"
          /\ call' = Done(call)
          /\ res' = "err"
          /\ committed' = FailedCommit(committed, writer)
    /\ UNCHANGED <<disk, reader, walk, scan>>
    /\ UNCHANGED <<events, nonIndexVars>>

UpdateFileReload ==
    /\ pc = "update_reload"
    /\ \/ /\ reader' = committed
          /\ res' = "ok"
          /\ UNCHANGED faults
       \/ /\ faults < MaxFaults
          /\ faults' = faults + 1
          /\ res' = "err"
          /\ UNCHANGED reader
    /\ pc' = "idle"
    /\ call' = Done(call)
    /\ UNCHANGED <<disk, writer, committed, walk, scan>>
    /\ UNCHANGED <<events, nonIndexVars>>

\* delete_file up to the commit: delete_term
DeleteFile(path) ==
    /\ pc = "idle"
    /\ writer' = Append(writer, DeleteOp(DeleteFileTerm(path)))
    /\ pc' = "delete_commit"
    /\ call' = Call("delete", path, NoContent)
    /\ res' = "running"
    /\ UNCHANGED <<disk, committed, reader, walk, scan, faults>>
    /\ UNCHANGED nonIndexVars

DeleteFileCommit ==
    /\ pc = "delete_commit"
    /\ \/ /\ committed' = ApplyOps(committed, writer)
          /\ writer' = <<>>
          /\ pc' = "delete_reload"
          /\ UNCHANGED <<call, res, faults>>
       \/ /\ faults < MaxFaults
          /\ writer' \in AfterFailedCommit(writer)
          /\ faults' = faults + 1
          /\ pc' = "idle"
          /\ call' = Done(call)
          /\ res' = "err"
          /\ committed' = FailedCommit(committed, writer)
    /\ UNCHANGED <<disk, reader, walk, scan>>
    /\ UNCHANGED <<events, nonIndexVars>>

DeleteFileReload ==
    /\ pc = "delete_reload"
    /\ \/ /\ reader' = committed
          /\ res' = "ok"
          /\ UNCHANGED faults
       \/ /\ faults < MaxFaults
          /\ faults' = faults + 1
          /\ res' = "err"
          /\ UNCHANGED reader
    /\ pc' = "idle"
    /\ call' = Done(call)
    /\ UNCHANGED <<disk, writer, committed, walk, scan>>
    /\ UNCHANGED <<events, nonIndexVars>>

\* the reader's reload policy (OnCommitWithDelay) picks up a commit by itself
AutoReload ==
    /\ pc \notin {"failed", "aborted"}
    /\ reader # committed
    /\ reader' = committed
    /\ UNCHANGED <<disk, writer, committed, pc, walk, call, res, scan, faults>>
    /\ UNCHANGED <<events, nonIndexVars>>

\* the user creates, rewrites, removes or breaks a Markdown file
DiskWrite(path, value) ==
    /\ pc \notin {"failed", "aborted"}
    /\ IsMarkdown(path)
    /\ disk[path] # value
    /\ disk' = [disk EXCEPT ![path] = value]
    /\ UNCHANGED <<writer, committed, reader, pc, walk, call, res, scan, faults>>
    /\ UNCHANGED nonIndexVars

IndexNext ==
    \/ IndexDirectoryStep
    \/ IndexDirectoryAddFails
    \/ IndexDirectoryCommit
    \/ IndexDirectoryReload
    \/ UNCHANGED events /\ \E path \in Files : UpdateFile(path)
    \/ UpdateFileCommit
    \/ UpdateFileReload
    \/ UNCHANGED events /\ \E path \in Files : DeleteFile(path)
    \/ DeleteFileCommit
    \/ DeleteFileReload
    \/ AutoReload
    \/ UNCHANGED events /\ \E path \in Files, value \in DiskValues : DiskWrite(path, value)

----------------------------------------------------------------------------
(* The file system handle_path resolves against.  Besides start_dir there  *)
(* is a directory outside it; start_dir/link is a symbolic link whose      *)
(* target changes while the server runs.                                   *)

ParentDir == Name("..", NoExt)

DirRoot == <<Name("root", NoExt)>>

DirSub  == <<Name("root", NoExt), Name("sub", NoExt)>>

DirEtc  == <<Name("etc", NoExt)>>

LinkAt  == <<Name("root", NoExt), Name("link", NoExt)>>

\* a FIFO: it exists, and is neither a regular file nor a directory
FifoAt  == <<Name("root", NoExt), Name("pipe", NoExt)>>

FileSecret == AbsPath(<<Name("etc", NoExt), Name("secret", "MD")>>)

Directories == {<<>>, DirRoot, DirSub, DirEtc}

RegularFiles == {FileA.comps, FileSubA.comps, FileN.comps, FileSecret.comps}

\* where start_dir/link may point: to a file or a directory outside
\* start_dir (absolute, or relative through ".."), to a file inside it,
\* to itself, or to nothing
LinkTargets == {FileSecret, AbsPath(DirEtc), RelPath(<<ParentDir, Name("etc", NoExt)>>),
                RelPath(<<Name("sub", NoExt), Name("a", "md")>>),
                RelPath(<<Name("link", NoExt)>>),
                AbsPath(<<Name("gone", NoExt)>>)}

NoTarget == RelPath(<<>>)

Node(l, at) ==
    IF at \in Directories THEN [type |-> "dir", target |-> NoTarget]
    ELSE IF at \in RegularFiles THEN [type |-> "file", target |-> NoTarget]
    ELSE IF at = FifoAt THEN [type |-> "fifo", target |-> NoTarget]
    ELSE IF at = LinkAt THEN [type |-> "symlink", target |-> l]
    ELSE [type |-> "missing", target |-> NoTarget]

\* the number of symbolic links path resolution follows before it gives up
MAXSYMLINKS == 40

Ok(path) == [ok |-> TRUE, path |-> path]

Err(path) == [ok |-> FALSE, path |-> path]

Parent(at) == IF at = <<>> THEN <<>> ELSE SubSeq(at, 1, Len(at) - 1)

\* path resolution from the resolved directory or file `at` through the
\* components `rest`
RECURSIVE Resolve(_, _, _, _)
Resolve(l, at, rest, hops) ==
    IF rest = <<>> THEN Ok(AbsPath(at))
    ELSE IF Node(l, at).type # "dir" THEN Err(AbsPath(at))
    ELSE IF Head(rest) = ParentDir THEN Resolve(l, Parent(at), Tail(rest), hops)
    ELSE LET next == Append(at, Head(rest))
             node == Node(l, next)
         IN  IF node.type = "missing" THEN Err(AbsPath(next))
             ELSE IF node.type = "symlink"
             THEN IF hops = 0 THEN Err(AbsPath(next))
                  ELSE Resolve(l, IF node.target.abs THEN <<>> ELSE at,
                               node.target.comps \o Tail(rest), hops - 1)
             ELSE Resolve(l, next, Tail(rest), hops)

\* Path::canonicalize of an absolute path
canonicalize(l, path) == Resolve(l, <<>>, path.comps, MAXSYMLINKS)

\* Path::is_file / Path::is_dir
is_file(l, path) == Node(l, path.comps).type = "file"

is_dir(l, path) == Node(l, path.comps).type = "dir"

\* str::to_lowercase of an extension
to_lowercase(ext) == IF ext = "MD" THEN "md" ELSE ext

----------------------------------------------------------------------------
(* handle_path                                                             *)

MaxSegments == 3

Segment(raw, slash, comps) == [raw |-> raw, slash |-> slash, comps |-> comps]

Plain(name) == Segment(CompString(name), FALSE, <<name>>)

\* the segments of a request path, each with what urlencoding::decode and
\* PathBuf::from make of it: %2F is '/'
Segments ==
    {Plain(Name("a", "md")), Plain(Name("sub", NoExt)), Plain(Name("link", NoExt)),
     Plain(Name("n", "txt")), Plain(Name("pipe", NoExt)), Plain(Name("secret", "MD")),
     Plain(ParentDir),
     Segment("%2Fetc", TRUE, <<Name("etc", NoExt)>>),
     Segment("..%2Fetc", FALSE, <<ParentDir, Name("etc", NoExt)>>)}

RequestPaths == UNION {[1..n -> Segments] : n \in 1..MaxSegments}

RECURSIVE DecodedComps(_)
DecodedComps(raw) ==
    IF raw = <<>> THEN <<>> ELSE Head(raw).comps \o DecodedComps(Tail(raw))

\* requested_path: the decoded text as a path; a leading '/' makes it absolute
requested_path(raw) == [abs |-> raw[1].slash, comps |-> DecodedComps(raw)]

CheckedPath_Uncanonical(full_path, canonical) == full_path

\* the path the containment check looks at
CheckedPath(full_path, canonical) == canonical

NoPath == RelPath(<<>>)

Response(status, body, request, source) ==
    [status |-> status, body |-> body, request |-> request, source |-> source]

NoResponse == Response(0, "none", NoPath, NoPath)

\* a request that has passed the containment check: the locals of handle_path
Checked(request, canonical) == [request |-> request, canonical_path |-> canonical]

NoRequest == Checked(NoPath, NoPath)

\* fs::read_to_string(file_path): the relative path is opened from the
\* working directory, which is start_dir
render_markdown_file(l, file_path) ==
    LET opened == canonicalize(l, join(start_dir, file_path))
    IN  IF opened.ok /\ is_file(l, opened.path)
        THEN Response(200, "markdown", file_path, opened.path)
        ELSE Response(200, "error page", file_path, NoPath)

serve_file(l, request, path) ==
    LET opened == canonicalize(l, path)
    IN  IF opened.ok /\ is_file(l, opened.path)
        THEN Response(200, "static", request, opened.path)
        ELSE Response(500, "text", request, NoPath)

render_directory_listing(l, dir_param) ==
    LET current_dir == canonicalize(l, join(start_dir, dir_param))
    IN  IF ~current_dir.ok THEN Response(400, "text", dir_param, NoPath)
        ELSE IF is_dir(l, current_dir.path)
        THEN Response(200, "listing", dir_param, current_dir.path)
        ELSE Response(200, "empty listing", dir_param, NoPath)

PathInit ==
    /\ link \in LinkTargets
    /\ checked = NoRequest
    /\ response = NoResponse

\* no request is being handled
Idle ==
    /\ checked = NoRequest
    /\ response = NoResponse

\* a GET of /{*path}, up to the containment check
HandlePath(raw) ==
    /\ Idle
    /\ LET request   == requested_path(raw)
           full_path == join(start_dir, request)
           canonical == canonicalize(link, full_path)
       IN  IF ~canonical.ok
           THEN /\ response' = Response(404, "text", request, NoPath)
                /\ UNCHANGED checked
           ELSE IF ~starts_with(CheckedPath(full_path, canonical.path), start_dir)
           THEN /\ response' = Response(403, "text", request, NoPath)
                /\ UNCHANGED checked
           ELSE /\ checked' = Checked(request, canonical.path)
                /\ UNCHANGED response
    /\ UNCHANGED link
    /\ UNCHANGED nonPathVars

\* handle_path after the check: the kind of the canonical path is looked
\* up and the file or directory is read
HandlePathServe ==
    /\ checked # NoRequest
    /\ response' =
          IF is_file(link, checked.canonical_path)
          THEN IF to_lowercase(extension(checked.canonical_path)) = "md"
               THEN render_markdown_file(link, checked.request)
               ELSE serve_file(link, checked.request, checked.canonical_path)
          ELSE IF is_dir(link, checked.canonical_path)
          THEN render_directory_listing(link, checked.request)
          ELSE Response(404, "text", checked.request, NoPath)
    /\ checked' = NoRequest
    /\ UNCHANGED link
    /\ UNCHANGED nonPathVars

\* the answer has gone out to the client
Reply ==
    /\ response # NoResponse
    /\ response' = NoResponse
    /\ UNCHANGED <<link, checked>>
    /\ UNCHANGED nonPathVars

\* somebody re-points the symbolic link
Relink(target) ==
    /\ target # link
    /\ link' = target
    /\ UNCHANGED <<checked, response>>
    /\ UNCHANGED nonPathVars

PathNext ==
    \/ Idle /\ \E raw \in RequestPaths : HandlePath(raw)
    \/ HandlePathServe
    \/ Reply
    \/ \E target \in LinkTargets : Relink(target)

----------------------------------------------------------------------------
(* start_file_watcher: the notify watcher sends every event of the         *)
(* directory into a channel; one thread takes them out and calls           *)
(* update_file or delete_file for each path of each event.                 *)

\* how many events may wait in the channel
MaxEvents == 2

Event(kind, paths) == [kind |-> kind, paths |-> paths]

\* the kind notify reports for a write: Create, Remove or Modify
WriteKind(old, new) ==
    IF old = Absent THEN "create"
    ELSE IF new = Absent THEN "remove"
    ELSE "modify"

\* the watcher runs once SearchIndex::new has returned
Watching == pc \notin {"walk", "walk_reload", "failed", "aborted"}

\* a Markdown file is created, rewritten, removed or made unreadable, and
\* the watcher reports it
WatchedWrite(path, value) ==
    /\ Watching
    /\ Len(events) < MaxEvents
    /\ DiskWrite(path, value)
    /\ events' = Append(events, Event(WriteKind(disk[path], value), <<path>>))

\* a Markdown file is renamed: notify reports Modify(Name(..)) with the old
\* and the new path
WatchedRename(from, to) ==
    /\ Watching
    /\ Len(events) < MaxEvents
    /\ IsMarkdown(from) /\ IsMarkdown(to)
    /\ disk[from] # Absent
    /\ disk[to] = Absent
    /\ disk' = [disk EXCEPT ![from] = Absent, ![to] = disk[from]]
    /\ events' = Append(events, Event("modify", <<from, to>>))
    /\ UNCHANGED <<writer, committed, reader, pc, walk, call, res, scan, faults>>
    /\ UNCHANGED nonIndexVars

\* the backend reports an error instead of the event of a write: the
\* callback sends nothing into the channel
WatcherError(path, value) ==
    /\ Watching
    /\ faults < MaxFaults
    /\ IsMarkdown(path)
    /\ disk[path] # value
    /\ disk' = [disk EXCEPT ![path] = value]
    /\ faults' = faults + 1
    /\ UNCHANGED <<writer, committed, reader, pc, walk, call, res, scan>>
    /\ UNCHANGED <<events, nonIndexVars>>

\* the channel without the first path of its first event
RestOf(queue) ==
    IF Len(Head(queue).paths) > 1
    THEN <<Event(Head(queue).kind, Tail(Head(queue).paths))>> \o Tail(queue)
    ELSE Tail(queue)

\* a loop that ends with the first call that fails
WatcherLoop_StopsOnError ==
    /\ res # "err"
    /\ events # <<>>
    /\ pc = "idle"
    /\ LET event == Head(events)
           path  == Head(event.paths)
       IN  IF event.kind \in {"create", "modify"} THEN UpdateFile(path)
           ELSE DeleteFile(path)
    /\ events' = RestOf(events)

\* the loop of the index thread, one path of one event
WatcherLoop ==
    /\ events # <<>>
    /\ pc = "idle"
    /\ LET event == Head(events)
           path  == Head(event.paths)
       IN  IF event.kind \in {"create", "modify"} THEN UpdateFile(path)
           ELSE DeleteFile(path)
    /\ events' = RestOf(events)

\* SearchIndex::new starts; the channel is empty
WatchInit ==
    /\ IndexInit
    /\ events = <<>>

WatchNext ==
    \/ IndexDirectoryStep
    \/ IndexDirectoryAddFails
    \/ IndexDirectoryCommit
    \/ IndexDirectoryReload
    \/ WatcherLoop
    \/ UpdateFileCommit
    \/ UpdateFileReload
    \/ DeleteFileCommit
    \/ DeleteFileReload
    \/ AutoReload
    \/ \E path \in Files, value \in DiskValues : WatchedWrite(path, value)
    \/ \E from \in Files, to \in Files : WatchedRename(from, to)
    \/ \E path \in Files, value \in DiskValues : WatcherError(path, value)

----------------------------------------------------------------------------
(* Searching: SearchIndex::search over the reader's snapshot, and the HTTP *)
(* endpoint search_handler in front of it.                                 *)

\* the largest directory searched
MaxDocs == 21

\* search_handler's fixed limit
HandlerLimit == 20

\* the i-th file of the searched directory and what it holds: every file
\* has the heading "Document"; three in four hold "Common", once to three
\* times, the others hold "rare"
CorpusFile(i) == AbsPath(<<Name("root", NoExt), Name("file" \o ToString(i), "md")>>)

CorpusContent(i) ==
    <<Line(TRUE, "Document")>> \o
    [k \in 1..((i % 3) + 1) |-> Line(FALSE, IF i % 4 = 0 THEN "rare" ELSE "Common")]

\* the index that index_directory builds over the first n files
Corpus(n) == [i \in 1..n |-> IndexFileDoc(CorpusFile(i), CorpusContent(i))]

\* query strings, and QueryParser::parse_query: the terms of a query, or an
\* error for a query that is not well formed; "" is the empty query
Queries == {"", "Common", "rare", "Common rare", "absent", "(Common", "nofield:Common"}

Malformed(q) == q \in {"(Common", "nofield:Common"}

QueryWords(q) ==
    IF q = "" THEN <<>>
    ELSE IF q = "Common rare" THEN <<"Common", "rare">>
    ELSE <<q>>

parse_query_Unwrap(q) ==
    IF Malformed(q) THEN [kind |-> "panic", terms |-> <<>>]
    ELSE [kind |-> "ok", terms |-> QueryWords(q)]

parse_query(q) ==
    IF Malformed(q) THEN [kind |-> "err", terms |-> <<>>]
    ELSE [kind |-> "ok", terms |-> QueryWords(q)]

\* how often a word occurs in the searched fields of a document
Occurrences(doc, word) ==
    (IF doc.file_name = word THEN 1 ELSE 0)
    + (IF doc.title = word THEN 1 ELSE 0)
    + Cardinality({i \in 1..Len(doc.content) : doc.content[i].text = word})

\* the relevance score of a document for the terms of a query (any term may
\* match): it grows with the number of occurrences
RECURSIVE Score(_, _)
Score(doc, terms) ==
    IF terms = <<>> THEN 0
    ELSE Occurrences(doc, Head(terms)) + Score(doc, Tail(terms))

Scored(snapshot, terms) ==
    LET all == [i \in 1..Len(snapshot) |->
                   [score |-> Score(snapshot[i], terms), doc |-> i]]
    IN  SelectSeq(all, LAMBDA h : h.score > 0)

\* a hit comes before another: the higher score, then the lower address
Before(a, b) == a.score > b.score \/ (a.score = b.score /\ a.doc < b.doc)

RECURSIVE Ranked(_)
Ranked(hits) ==
    IF hits = <<>> THEN <<>>
    ELSE LET best == CHOOSE i \in 1..Len(hits) :
                        \A j \in 1..Len(hits) : j = i \/ Before(hits[i], hits[j])
         IN  <<hits[best]>> \o
             Ranked([k \in 1..(Len(hits) - 1) |-> IF k < best THEN hits[k] ELSE hits[k + 1]])

First(seq, n) == SubSeq(seq, 1, IF n < Len(seq) THEN n ELSE Len(seq))

\* searcher.search(&query, &TopDocs::with_limit(limit))
TopDocs(snapshot, terms, limit) == First(Ranked(Scored(snapshot, terms)), limit)

SearchResult(doc) ==
    [file_path |-> doc.path, file_name |-> doc.file_name, title |-> doc.title]

\* what a call gives: Ok, Err or a panic; whether it took a searcher from
\* the reader; whether the query failed to parse; the collected documents
\* and the results made of them
Outcome(kind, searched, parse_error, top_docs, results) ==
    [kind |-> kind, searched |-> searched, parse_error |-> parse_error,
     top_docs |-> top_docs, results |-> results]

NoResults == Outcome("ok", FALSE, FALSE, <<>>, <<>>)

\* SearchIndex::search: take a searcher, parse, collect the top documents,
\* fetch them.  TopDocs::with_limit asserts limit >= 1
search(snapshot, q, limit) ==
    LET query == parse_query(q)
    IN  IF query.kind # "ok" THEN Outcome(query.kind, TRUE, TRUE, <<>>, <<>>)
        ELSE IF limit = 0 THEN Outcome("panic", TRUE, FALSE, <<>>, <<>>)
        ELSE LET top_docs == TopDocs(snapshot, query.terms, limit)
             IN  Outcome("ok", TRUE, FALSE, top_docs,
                         [i \in 1..Len(top_docs) |-> SearchResult(snapshot[top_docs[i].doc])])

search_handler_Unguarded(enabled, index, snapshot, q) ==
    search(snapshot, q, HandlerLimit + 1)

\* search_handler: the JSON array it answers with; an Err of search is
\* logged and becomes the empty array
search_handler(enabled, index, snapshot, q) ==
    IF ~enabled \/ q = "" THEN NoResults
    ELSE IF index = "None" THEN NoResults
    ELSE LET results == search(snapshot, q, HandlerLimit)
         IN  IF results.kind = "err"
             THEN Outcome("ok", TRUE, TRUE, <<>>, <<>>)
             ELSE results

Found(op, q, limit, outcome) ==
    [op |-> op, q |-> q, limit |-> limit, outcome |-> outcome,
     after_error |-> found.outcome.parse_error]

NoSearch ==
    [op |-> "none", q |-> "", limit |-> 0,
     outcome |-> Outcome("none", FALSE, FALSE, <<>>, <<>>), after_error |-> FALSE]

\* the limits search is called with
Limits == {0, 1, 2, HandlerLimit, MaxDocs + 1}

\* the server is up: search is on or off, and the index, when there is one,
\* has been built over a directory of up to MaxDocs files
SearchInit ==
    /\ enable_search \in BOOLEAN
    /\ search_index \in {"Some", "None"}
    /\ found = NoSearch
    /\ \E n \in 0..MaxDocs :
          /\ committed = IF search_index = "Some" THEN Corpus(n) ELSE <<>>
          /\ reader = committed
    /\ disk = [path \in Files |-> Absent]
    /\ writer = <<>>
    /\ pc = "idle"
    /\ walk = Len(WalkOrder)
    /\ call = NoCall
    /\ res = "none"
    /\ scan = NoScan
    /\ faults = 0

\* a call of SearchIndex::search
Search(q, limit) ==
    /\ search_index = "Some"
    /\ found' = Found("search", q, limit, search(reader, q, limit))
    /\ UNCHANGED <<enable_search, search_index>>
    /\ UNCHANGED nonSearchVars

\* a GET of /search?q=...
SearchHandler(q) ==
    /\ found' = Found("search_handler", q, HandlerLimit,
                      search_handler(enable_search, search_index, reader, q))
    /\ UNCHANGED <<enable_search, search_index>>
    /\ UNCHANGED nonSearchVars

SearchNext ==
    \/ \E q \in Queries, limit \in Limits : Search(q, limit)
    \/ \E q \in Queries : SearchHandler(q)

----------------------------------------------------------------------------
(* The shared annotations: handle_socket (src/src/server.rs).              *)
(*                                                                         *)
(* start opens the sqlite store and makes one broadcast channel.  Every    *)
(* WebSocket connection runs handle_socket: it subscribes to the channel,  *)
(* takes the first frame as the file path, replays the stored annotations  *)
(* and the stored viewed state, and then runs two tasks: send_task relays  *)
(* what the channel brings to the client, recv_task applies the client's   *)
(* mutations to the store and publishes them on the channel.               *)

\* frames the clients may send after their first ones, over a whole run
MaxFrames == 1

Sessions == {"A", "B"}

FilePaths == {"a.md", "b.md"}

NoFile == ""

Ids == {"x", "y"}

\* what annotation["id"] gives when the annotation has no string id
NoId == "null"

\* an annotation is a JSON value; only its id matters here
Annotation(id) == [id |-> id]

States == {"v1", "v2"}

NoState == "null"

\* the state that is replayed when none is stored
EmptyState == "{}"

\* serde_json::to_string of a value, and serde_json::from_str of a text
to_string(value) == [json |-> TRUE, value |-> value]

from_str(text) == [ok |-> text.json, value |-> text.value]

\* WebSocketMessage, with the fields of all its variants
Msg(type, annotation, id, state, anns) ==
    [type |-> type, annotation |-> annotation, id |-> id, state |-> state,
     annotations |-> anns]

AllAnnotations(anns) ==
    Msg("all_annotations", Annotation(NoId), NoId, NoState, anns)

NewAnnotation(annotation) ==
    Msg("new_annotation", annotation, NoId, NoState, {})

DeleteAnnotation(id) ==
    Msg("delete_annotation", Annotation(NoId), id, NoState, {})

ClearAnnotations ==
    Msg("clear_annotations", Annotation(NoId), NoId, NoState, {})

ViewedState(state) ==
    Msg("viewed_state", Annotation(NoId), NoId, state, {})

UpdateViewedState(state) ==
    Msg("update_viewed_state", Annotation(NoId), NoId, state, {})

\* a text that is no JSON of a WebSocketMessage
NoMsg == Msg("", Annotation(NoId), NoId, NoState, {})

\* Message of the socket: a text frame is the JSON of msg, or the plain
\* text raw when msg is NoMsg; the other kinds carry nothing that is read
Frame(kind, msg, raw) == [kind |-> kind, msg |-> msg, raw |-> raw]

Text(msg, raw) == Frame("text", msg, raw)

Binary == Frame("binary", NoMsg, "")

\* receiver.next() gives Some(Err(_))
StreamError == Frame("error", NoMsg, "")

\* receiver.next() gives None: the client has gone
End == Frame("end", NoMsg, "")

\* the first frame gives the file path when it is a text frame
IsText_AnyFrame(frame) == TRUE

IsText(frame) == frame.kind = "text"

\* what a client sends first
FirstFrames ==
    {Text(NoMsg, f) : f \in FilePaths} \cup {Binary, StreamError, End}

\* the messages a client sends later: the four mutations, with and
\* without the id they need, and a message only the server should send
ClientMsgs ==
    {NewAnnotation(Annotation(id)) : id \in Ids \cup {NoId}}
        \cup {DeleteAnnotation(id) : id \in {"x", NoId}}
        \cup {ClearAnnotations}
        \cup {UpdateViewedState(state) : state \in States}
        \cup {ViewedState("v1")}

LaterFrames ==
    {Text(msg, "") : msg \in ClientMsgs}
        \cup {Text(NoMsg, "a.md"), Binary, End}

\* serde_json::from_str::<WebSocketMessage>: the tag is known and the
\* fields of the variant are there (delete_annotation needs a string id)
ParseMsg(frame) ==
    /\ frame.msg # NoMsg
    /\ frame.msg.type = "delete_annotation" => frame.msg.id # NoId

\* annotation["id"].as_str() is Some
HasStringId(msg) == msg.annotation.id # NoId

\* the arms of the match that write and publish
IsMutation(msg) ==
    msg.type \in {"new_annotation", "delete_annotation", "clear_annotations",
                  "update_viewed_state"}

\* the rows of the two tables
AnnotationRow(id, path, data) == [id |-> id, file_path |-> path, data |-> data]

ViewedRow(path, state) == [file_path |-> path, state |-> state]

\* INSERT OR REPLACE INTO annotations: id is the primary key
InsertAnnotation(table, id, path, data) ==
    {row \in table : row.id # id} \cup {AnnotationRow(id, path, data)}

\* DELETE FROM annotations WHERE id = ?1 AND file_path = ?2
DeleteRow(table, id, path) ==
    {row \in table : ~(row.id = id /\ row.file_path = path)}

\* DELETE FROM annotations WHERE file_path = ?1
ClearRows(table, path) == {row \in table : row.file_path # path}

\* INSERT OR IGNORE INTO viewed_state: the row of the file stays
InsertViewed_OrIgnore(table, path, state) ==
    IF \E row \in table : row.file_path = path
    THEN table
    ELSE table \cup {ViewedRow(path, state)}

\* INSERT OR REPLACE INTO viewed_state: file_path is the primary key
InsertViewed(table, path, state) ==
    {row \in table : row.file_path # path} \cup {ViewedRow(path, state)}

\* SELECT data FROM annotations WHERE file_path = ?1, each row parsed
\* (every row was written by to_string, so from_str gives its value)
SelectAnnotations_AnyFile(table, path) ==
    {from_str(row.data).value : row \in table}

SelectAnnotations(table, path) ==
    {from_str(row.data).value : row \in {r \in table : r.file_path = path}}

\* SELECT state FROM viewed_state WHERE file_path = ?1, parsed; "{}" when
\* the query gives no row
SelectState(table, path) ==
    IF \E row \in table : row.file_path = path
    THEN from_str((CHOOSE row \in table : row.file_path = path).state).value
    ELSE EmptyState

\* the statement of each mutation, applied to the two tables
execute(tables, msg, path) ==
    CASE msg.type = "new_annotation" ->
            [tables EXCEPT !.annotations =
                InsertAnnotation(@, msg.annotation.id, path,
                                 to_string(msg.annotation))]
      [] msg.type = "delete_annotation" ->
            [tables EXCEPT !.annotations = DeleteRow(@, msg.id, path)]
      [] msg.type = "clear_annotations" ->
            [tables EXCEPT !.annotations = ClearRows(@, path)]
      [] msg.type = "update_viewed_state" ->
            [tables EXCEPT !.viewed_state =
                InsertViewed(@, path, to_string(msg.state))]
      [] OTHER -> tables

\* the event each mutation publishes
BroadcastMsg(msg) ==
    IF msg.type = "update_viewed_state" THEN ViewedState(msg.state) ELSE msg

\* what recv_task does for a mutation, in this order, holding the lock
Steps_SendFirst(msg) == <<"send", "execute">>

Steps(msg) == <<"execute", "send">>

\* only clear_annotations matches on the result of db.execute; the other
\* three unwrap it
HandlesError(msg) == msg.type = "clear_annotations"

Job(msg, steps) == [msg |-> msg, steps |-> steps]

NoJob == Job(NoMsg, <<>>)

\* a broadcast::Receiver: live until it is dropped
Rx(live, queue) == [live |-> live, queue |-> queue]

NoRx == Rx(FALSE, <<>>)

\* broadcast::channel(100): the number of events the channel retains
ChannelCapacity == 100

\* the mark of a receiver that fell behind by more than the channel
\* retains: its next recv gives Err(RecvError::Lagged)
Lagged == Msg("lagged", Annotation(NoId), NoId, NoState, {})

\* the events a receiver has yet to take
Pending(queue) ==
    IF queue # <<>> /\ Head(queue) = Lagged THEN Tail(queue) ELSE queue

\* Sender::send for one receiver: the event is the newest; when the
\* receiver is behind by all the channel retains, its oldest event is lost
Enqueue(queue, event) ==
    IF Len(Pending(queue)) < ChannelCapacity
    THEN Append(queue, event)
    ELSE <<Lagged>> \o Tail(Pending(queue)) \o <<event>>

\* the lines of stderr that tell of a failure: the two eprintln! of
\* handle_socket and the report of a panic
NoLine == ""

NoFilePathLine == "[WebSocket] Failed to receive file path from client"

ClearFailedLine == "[WebSocket] Failed to clear annotations"

\* what the report of a panic says of the value that was unwrapped
PoisonError == "panicked at Result::unwrap(): PoisonError"

SqliteFailure == "panicked at Result::unwrap(): SqliteFailure"

UnwrapNone == "panicked at Option::unwrap(): None"

SendError == "panicked at Result::unwrap(): SendError"

\* the two tables as execute takes them
Tables == [annotations |-> annotations, viewed_state |-> viewed_state]

\* the state after start, with n frames for the clients to send
HubStart(n) ==
    /\ annotations = {}
    /\ viewed_state = {}
    /\ db = "free"
    /\ task = [s \in Sessions |-> "closed"]
    /\ file_paths = [s \in Sessions |-> NoFile]
    /\ rx = [s \in Sessions |-> NoRx]
    /\ sender = [s \in Sessions |-> <<>>]
    /\ receiver = [s \in Sessions |-> <<>>]
    /\ job = [s \in Sessions |-> NoJob]
    /\ stderr = NoLine
    /\ budget = n

HubInit == HubStart(MaxFrames)

\* handle_socket is over for s, by return, by a panic or after select!:
\* both tasks, the two halves of the socket and the receiver of the
\* channel are dropped
Close(s) ==
    /\ task' = [task EXCEPT ![s] = "closed"]
    /\ file_paths' = [file_paths EXCEPT ![s] = NoFile]
    /\ rx' = [rx EXCEPT ![s] = NoRx]
    /\ sender' = [sender EXCEPT ![s] = <<>>]
    /\ receiver' = [receiver EXCEPT ![s] = <<>>]
    /\ job' = [job EXCEPT ![s] = NoJob]

\* handle_socket of s panics before it has spawned its tasks: the panic
\* is reported and the connection is over
Panic(s, line) ==
    /\ Close(s)
    /\ stderr' = line

\* recv_task of s is over, by the end of its loop or by a panic: its half
\* of the socket is dropped; send_task runs on until select! sees it
Finish(s) ==
    /\ task' = [task EXCEPT ![s] = "finished"]
    /\ receiver' = [receiver EXCEPT ![s] = <<>>]
    /\ job' = [job EXCEPT ![s] = NoJob]
    /\ UNCHANGED <<file_paths, rx, sender>>

\* recv_task of s panics: the panic is reported and the task is over
RecvPanic(s, line) ==
    /\ Finish(s)
    /\ stderr' = line

\* ws_handler: a client connects, handle_socket splits the socket and
\* subscribes to the channel
Connect(s) ==
    /\ task[s] = "closed"
    /\ task' = [task EXCEPT ![s] = "first"]
    /\ rx' = [rx EXCEPT ![s] = Rx(TRUE, <<>>)]
    /\ UNCHANGED <<annotations, viewed_state, db, file_paths, sender,
                   receiver, job, stderr, budget>>
    /\ UNCHANGED nonHubVars

\* the client of s puts a frame on the socket, once the server has taken
\* the one before
ClientSends(s, frame) ==
    /\ task[s] \notin {"closed", "finished"}
    /\ receiver[s] = <<>>
    /\ IF task[s] = "first"
       THEN frame \in FirstFrames /\ budget' = budget
       ELSE frame \in LaterFrames /\ budget > 0 /\ budget' = budget - 1
    /\ receiver' = [receiver EXCEPT ![s] = Append(@, frame)]
    /\ UNCHANGED <<annotations, viewed_state, db, task, file_paths, rx,
                   sender, job, stderr>>
    /\ UNCHANGED nonHubVars

\* handle_socket: the first frame is the file path, or the function says
\* so on stderr and returns
FirstMessage(s) ==
    /\ task[s] = "first"
    /\ receiver[s] # <<>>
    /\ LET frame == Head(receiver[s]) IN
        IF IsText(frame)
        THEN /\ task' = [task EXCEPT ![s] = "annotations"]
             /\ file_paths' = [file_paths EXCEPT ![s] = frame.raw]
             /\ receiver' = [receiver EXCEPT ![s] = Tail(@)]
             /\ UNCHANGED <<rx, sender, job, stderr>>
        ELSE /\ Close(s)
             /\ stderr' = NoFilePathLine
    /\ UNCHANGED <<annotations, viewed_state, db, budget>>
    /\ UNCHANGED nonHubVars

\* handle_socket: the stored annotations of the file are read under the
\* lock and sent; a poisoned lock panics, a failed send returns
ReplayAnnotations(s) ==
    /\ task[s] = "annotations"
    /\ db \in {"free", "poisoned"}
    /\ IF db = "poisoned"
       THEN Panic(s, PoisonError)
       ELSE \E sent \in BOOLEAN :
            IF sent
            THEN /\ sender' = [sender EXCEPT ![s] =
                        Append(@, AllAnnotations(
                            SelectAnnotations(annotations, file_paths[s])))]
                 /\ task' = [task EXCEPT ![s] = "viewed"]
                 /\ UNCHANGED <<file_paths, rx, receiver, job, stderr>>
            ELSE /\ Close(s)
                 /\ UNCHANGED stderr
    /\ UNCHANGED <<annotations, viewed_state, db, budget>>
    /\ UNCHANGED nonHubVars

\* a handle_socket that subscribes to the channel when the replay is done
ReplayViewed_Subscribes(s) ==
    /\ task[s] = "viewed"
    /\ db \in {"free", "poisoned"}
    /\ IF db = "poisoned"
       THEN Panic(s, PoisonError)
       ELSE \E sent \in BOOLEAN :
            IF sent
            THEN /\ sender' = [sender EXCEPT ![s] =
                        Append(@, ViewedState(
                            SelectState(viewed_state, file_paths[s])))]
                 /\ task' = [task EXCEPT ![s] = "live"]
                 /\ rx' = [rx EXCEPT ![s] = Rx(TRUE, <<>>)]
                 /\ UNCHANGED <<file_paths, receiver, job, stderr>>
            ELSE /\ Close(s)
                 /\ UNCHANGED stderr
    /\ UNCHANGED <<annotations, viewed_state, db, budget>>
    /\ UNCHANGED nonHubVars

\* handle_socket: the stored viewed state of the file is read under the
\* lock and sent, and the two tasks are spawned
ReplayViewed(s) ==
    /\ task[s] = "viewed"
    /\ db \in {"free", "poisoned"}
    /\ IF db = "poisoned"
       THEN Panic(s, PoisonError)
       ELSE \E sent \in BOOLEAN :
            IF sent
            THEN /\ sender' = [sender EXCEPT ![s] =
                        Append(@, ViewedState(
                            SelectState(viewed_state, file_paths[s])))]
                 /\ task' = [task EXCEPT ![s] = "live"]
                 /\ UNCHANGED <<file_paths, rx, receiver, job, stderr>>
            ELSE /\ Close(s)
                 /\ UNCHANGED stderr
    /\ UNCHANGED <<annotations, viewed_state, db, budget>>
    /\ UNCHANGED nonHubVars

\* a send_task that relays the newest event of its receiver first
Forward_NewestFirst(s) ==
    /\ task[s] \in {"live", "finished"}
    /\ rx[s].live
    /\ rx[s].queue # <<>>
    /\ sender' = [sender EXCEPT ![s] =
                    Append(@, rx[s].queue[Len(rx[s].queue)])]
    /\ rx' = [rx EXCEPT ![s] =
                Rx(TRUE, SubSeq(rx[s].queue, 1, Len(rx[s].queue) - 1))]
    /\ UNCHANGED <<annotations, viewed_state, db, task, file_paths, receiver,
                   job, stderr, budget>>
    /\ UNCHANGED nonHubVars

\* a send_task that goes on with the oldest retained event when recv gives
\* Err(Lagged)
Forward_SkipsLagged(s) ==
    /\ task[s] \in {"live", "finished"}
    /\ rx[s].live
    /\ rx[s].queue # <<>>
    /\ \E sent \in BOOLEAN :
        IF Head(rx[s].queue) = Lagged
        THEN /\ rx' = [rx EXCEPT ![s] = Rx(TRUE, Tail(rx[s].queue))]
             /\ UNCHANGED sender
        ELSE IF sent
        THEN /\ sender' = [sender EXCEPT ![s] = Append(@, Head(rx[s].queue))]
             /\ rx' = [rx EXCEPT ![s] = Rx(TRUE, Tail(rx[s].queue))]
        ELSE /\ rx' = [rx EXCEPT ![s] = NoRx]
             /\ UNCHANGED sender
    /\ UNCHANGED <<annotations, viewed_state, db, task, file_paths, receiver,
                   job, stderr, budget>>
    /\ UNCHANGED nonHubVars

\* send_task: the next event of the channel goes to the client; when
\* recv gives Err(Lagged) or the socket refuses the event, the task ends
\* and drops its receiver
Forward(s) ==
    /\ task[s] \in {"live", "finished"}
    /\ rx[s].live
    /\ rx[s].queue # <<>>
    /\ \E sent \in BOOLEAN :
        IF sent /\ Head(rx[s].queue) # Lagged
        THEN /\ sender' = [sender EXCEPT ![s] = Append(@, Head(rx[s].queue))]
             /\ rx' = [rx EXCEPT ![s] = Rx(TRUE, Tail(rx[s].queue))]
        ELSE /\ rx' = [rx EXCEPT ![s] = NoRx]
             /\ UNCHANGED sender
    /\ UNCHANGED <<annotations, viewed_state, db, task, file_paths, receiver,
                   job, stderr, budget>>
    /\ UNCHANGED nonHubVars

\* a select! that polls recv_task alone
Abort_RecvTaskOnly(s) ==
    /\ task[s] = "finished"
    /\ Close(s)
    /\ UNCHANGED <<annotations, viewed_state, db, stderr, budget>>
    /\ UNCHANGED nonHubVars

\* select!: one of the two tasks is over and the other is aborted,
\* recv_task where it awaits; handle_socket returns
Abort(s) ==
    /\ \/ task[s] = "live" /\ ~rx[s].live /\ job[s] = NoJob
       \/ task[s] = "finished"
    /\ Close(s)
    /\ UNCHANGED <<annotations, viewed_state, db, stderr, budget>>
    /\ UNCHANGED nonHubVars

\* recv_task: the next frame of the client.  A frame that is no text ends
\* the loop; a text that does not parse is skipped; for a message the
\* lock is taken (a poisoned lock panics), a mutation is taken in hand and
\* any other message dropped.  new_annotation unwraps the id first, with
\* the lock held.
Receive(s) ==
    /\ task[s] = "live"
    /\ job[s] = NoJob
    /\ receiver[s] # <<>>
    /\ LET frame == Head(receiver[s])
           msg == frame.msg
           Skip == /\ receiver' = [receiver EXCEPT ![s] = Tail(@)]
                   /\ UNCHANGED <<task, file_paths, rx, sender, job, db,
                                  stderr>>
       IN  CASE ~IsText(frame) ->
                    /\ Finish(s)
                    /\ UNCHANGED <<db, stderr>>
             [] IsText(frame) /\ ~ParseMsg(frame) -> Skip
             [] IsText(frame) /\ ParseMsg(frame) ->
                    /\ db \in {"free", "poisoned"}
                    /\ IF db = "poisoned"
                       THEN /\ RecvPanic(s, PoisonError)
                            /\ UNCHANGED db
                       ELSE IF ~IsMutation(msg)
                       THEN Skip
                       ELSE IF msg.type = "new_annotation" /\ ~HasStringId(msg)
                       THEN /\ RecvPanic(s, UnwrapNone)
                            /\ db' = "poisoned"
                       ELSE /\ job' = [job EXCEPT ![s] = Job(msg, Steps(msg))]
                            /\ db' = s
                            /\ receiver' = [receiver EXCEPT ![s] = Tail(@)]
                            /\ UNCHANGED <<task, file_paths, rx, sender,
                                           stderr>>
    /\ UNCHANGED <<annotations, viewed_state, budget>>
    /\ UNCHANGED nonHubVars

\* a recv_task that keeps the guard of the lock when it goes back to
\* await the next frame
Continue_KeepsGuard(s) ==
    LET rest == Tail(job[s].steps) IN
    /\ job' = [job EXCEPT ![s] =
                  IF rest = <<>> THEN NoJob ELSE Job(job[s].msg, rest)]
    /\ db' = db

\* a recv_task that drops the guard of the lock after its write and
\* publishes without it
Continue_DropsGuardEarly(s) ==
    LET rest == Tail(job[s].steps) IN
    /\ job' = [job EXCEPT ![s] =
                  IF rest = <<>> THEN NoJob ELSE Job(job[s].msg, rest)]
    /\ db' = IF db = s THEN "free" ELSE db

\* recv_task: a step of the mutation in hand is done; after the last one
\* the guard of the lock is dropped
Continue(s) ==
    LET rest == Tail(job[s].steps) IN
    /\ job' = [job EXCEPT ![s] =
                  IF rest = <<>> THEN NoJob ELSE Job(job[s].msg, rest)]
    /\ db' = IF rest = <<>> THEN "free" ELSE db

\* recv_task: db.execute.  The statement commits, or the store fails: the
\* arm of clear_annotations says so on stderr and goes on, the other arms
\* unwrap the error and panic with the lock held
Write(s) ==
    /\ job[s] # NoJob
    /\ Head(job[s].steps) = "execute"
    /\ \E ok \in BOOLEAN :
        IF ok
        THEN /\ annotations' =
                    execute(Tables, job[s].msg, file_paths[s]).annotations
             /\ viewed_state' =
                    execute(Tables, job[s].msg, file_paths[s]).viewed_state
             /\ Continue(s)
             /\ UNCHANGED <<task, file_paths, rx, sender, receiver, stderr>>
        ELSE IF HandlesError(job[s].msg)
        THEN /\ job' = [job EXCEPT ![s] = NoJob]
             /\ db' = "free"
             /\ stderr' = ClearFailedLine
             /\ UNCHANGED <<annotations, viewed_state, task, file_paths, rx,
                            sender, receiver>>
        ELSE /\ RecvPanic(s, SqliteFailure)
             /\ db' = "poisoned"
             /\ UNCHANGED <<annotations, viewed_state>>
    /\ UNCHANGED budget
    /\ UNCHANGED nonHubVars

\* a send that reaches only the receivers of the sessions that declared
\* the file of the sender
Publish_SameFileOnly(s) ==
    /\ job[s] # NoJob
    /\ Head(job[s].steps) = "send"
    /\ IF \E t \in Sessions : rx[t].live
       THEN /\ rx' = [t \in Sessions |->
                        IF rx[t].live /\ file_paths[t] = file_paths[s]
                        THEN Rx(TRUE, Enqueue(rx[t].queue,
                                              BroadcastMsg(job[s].msg)))
                        ELSE rx[t]]
            /\ Continue(s)
            /\ UNCHANGED <<task, file_paths, sender, receiver, stderr>>
       ELSE /\ RecvPanic(s, SendError)
            /\ db' = "poisoned"
    /\ UNCHANGED <<annotations, viewed_state, budget>>
    /\ UNCHANGED nonHubVars

\* tx.send by recv_task of s.  Every live receiver gets the event,
\* however far behind it is; with no live receiver send gives Err, which
\* is unwrapped with the lock held
Publish(s) ==
    /\ job[s] # NoJob
    /\ Head(job[s].steps) = "send"
    /\ IF \E t \in Sessions : rx[t].live
       THEN /\ rx' = [t \in Sessions |->
                        IF rx[t].live
                        THEN Rx(TRUE, Enqueue(rx[t].queue,
                                              BroadcastMsg(job[s].msg)))
                        ELSE rx[t]]
            /\ Continue(s)
            /\ UNCHANGED <<task, file_paths, sender, receiver, stderr>>
       ELSE /\ RecvPanic(s, SendError)
            /\ db' = "poisoned"
    /\ UNCHANGED <<annotations, viewed_state, budget>>
    /\ UNCHANGED nonHubVars

\* a send that waits for room in every receiver, as a bounded queue does
Send_WaitsForRoom(s) ==
    /\ \A t \in Sessions :
            rx[t].live => Len(Pending(rx[t].queue)) < ChannelCapacity
    /\ Publish(s)

\* recv_task: tx.send, the step that follows the write
Send(s) ==
    /\ job[s] # NoJob
    /\ Publish(s)

\* the process ends and start runs again: the connections, the channel
\* and the lock are new, the store is the file it was
Restart ==
    /\ db # "free" \/ \E s \in Sessions : task[s] # "closed"
    /\ db' = "free"
    /\ task' = [s \in Sessions |-> "closed"]
    /\ file_paths' = [s \in Sessions |-> NoFile]
    /\ rx' = [s \in Sessions |-> NoRx]
    /\ sender' = [s \in Sessions |-> <<>>]
    /\ receiver' = [s \in Sessions |-> <<>>]
    /\ job' = [s \in Sessions |-> NoJob]
    /\ UNCHANGED <<annotations, viewed_state, stderr, budget>>
    /\ UNCHANGED nonHubVars

HubNext ==
    \/ \E s \in Sessions : Connect(s)
    \/ \E s \in Sessions, frame \in FirstFrames \cup LaterFrames :
            ClientSends(s, frame)
    \/ \E s \in Sessions : FirstMessage(s)
    \/ \E s \in Sessions : ReplayAnnotations(s)
    \/ \E s \in Sessions : ReplayViewed(s)
    \/ \E s \in Sessions : Forward(s)
    \/ \E s \in Sessions : Abort(s)
    \/ \E s \in Sessions : Receive(s)
    \/ \E s \in Sessions : Write(s)
    \/ \E s \in Sessions : Send(s)
    \/ Restart

----------------------------------------------------------------------------
(* watch (src/markon/srcs/watcher.rs): a debouncer watches the previewed   *)
(* file; its callback reads the file, renders it, replaces the shared HTML *)
(* under the write lock and sends the reload signal.  A viewer takes the   *)
(* signal and fetches the shared HTML again.                               *)

\* how many times the previewed file changes
MaxChanges == 3

\* the file at a revision, readable or not
Previewed(rev, readable) == [rev |-> rev, readable |-> readable]

\* markdown::to_html of the file read at a revision
to_html(rev) == [html |-> TRUE, of |-> rev]

\* what the callback does once it has read and rendered the file, in this
\* order; the write guard is taken for the first step and dropped after
\* the last
CallbackSteps_SignalFirst == <<"send", "replace">>

CallbackSteps == <<"replace", "send">>

\* the callback at work: the HTML it rendered, the newest change of the
\* batch it was called for, and what is left to do
Callback(html, cause, steps) == [html |-> html, cause |-> cause, steps |-> steps]

NoCallback == Callback(to_html(0), 0, <<>>)

\* the callback holds the write guard of shared_html
GuardHeld ==
    /\ callback.steps # <<>>
    /\ \A i \in 1..Len(callback.steps) : callback.steps[i] # "replace"

\* the viewer: the newest change named by the last signal it took, the
\* HTML it fetched last, and whether it still has to fetch
Viewer(cause, html, fetching) == [cause |-> cause, html |-> html, fetching |-> fetching]

ReloadInit ==
    /\ previewed = Previewed(0, TRUE)
    /\ debounced = <<>>
    /\ shared_html = to_html(0)
    /\ callback = NoCallback
    /\ signals = <<>>
    /\ viewer = Viewer(0, to_html(0), FALSE)

\* the previewed file is rewritten, or made unreadable, and the debouncer
\* notes the change
Change(readable) ==
    /\ previewed.rev < MaxChanges
    /\ previewed' = Previewed(previewed.rev + 1, readable)
    /\ debounced' = Append(debounced, previewed.rev + 1)
    /\ UNCHANGED <<shared_html, callback, signals, viewer>>
    /\ UNCHANGED nonReloadVars

\* the debounce time is over: the callback gets the batch, reads the file
\* and renders it; when the file cannot be read it does nothing
CallbackReads ==
    /\ callback.steps = <<>>
    /\ debounced # <<>>
    /\ debounced' = <<>>
    /\ callback' = IF previewed.readable
                   THEN Callback(to_html(previewed.rev),
                                 debounced[Len(debounced)], CallbackSteps)
                   ELSE callback
    /\ UNCHANGED <<previewed, shared_html, signals, viewer>>
    /\ UNCHANGED nonReloadVars

\* the callback replaces the shared HTML, or sends the reload signal
CallbackStep ==
    /\ callback.steps # <<>>
    /\ IF Head(callback.steps) = "replace"
       THEN /\ shared_html' = callback.html
            /\ UNCHANGED signals
       ELSE /\ signals' = Append(signals, callback.cause)
            /\ UNCHANGED shared_html
    /\ callback' = [callback EXCEPT !.steps = Tail(@)]
    /\ UNCHANGED <<previewed, debounced, viewer>>
    /\ UNCHANGED nonReloadVars

\* the viewer takes a reload signal
ViewerSignalled ==
    /\ signals # <<>>
    /\ viewer' = Viewer(Head(signals), viewer.html, TRUE)
    /\ signals' = Tail(signals)
    /\ UNCHANGED <<previewed, debounced, shared_html, callback>>
    /\ UNCHANGED nonReloadVars

\* the viewer fetches the page again: the handler reads shared_html under
\* the read lock
ViewerFetches ==
    /\ viewer.fetching
    /\ ~GuardHeld
    /\ viewer' = Viewer(viewer.cause, shared_html, FALSE)
    /\ UNCHANGED <<previewed, debounced, shared_html, callback, signals>>
    /\ UNCHANGED nonReloadVars

ReloadNext ==
    \/ \E readable \in BOOLEAN : Change(readable)
    \/ CallbackReads
    \/ CallbackStep
    \/ ViewerSignalled
    \/ ViewerFetches

\* the previewed file is left alone while the rest is looked at
ReloadStill == ReloadInit

----------------------------------------------------------------------------
(* The specifications: each part runs while the others stand still.        *)

\* no session is connected while the rest is looked at
HubStill == HubInit

\* nothing is searched while the rest is looked at
SearchStill ==
    /\ enable_search = TRUE
    /\ search_index = "Some"
    /\ found = NoSearch

\* nothing is requested while the index is looked at
PathStill ==
    /\ link = FileSecret
    /\ checked = NoRequest
    /\ response = NoResponse

\* the index is not touched while requests are looked at
IndexStill ==
    /\ disk = [path \in Files |-> File(ContentV1)]
    /\ writer = <<>>
    /\ committed = <<>>
    /\ reader = <<>>
    /\ pc = "walk"
    /\ walk = 0
    /\ call = NoCall
    /\ res = "none"
    /\ scan = NoScan
    /\ faults = 0

\* no event is waiting
WatchStill == events = <<>>

InitIndex == IndexInit /\ WatchStill /\ PathStill /\ SearchStill /\ ReloadStill /\ HubStill

InitPath == PathInit /\ IndexStill /\ WatchStill /\ SearchStill /\ ReloadStill /\ HubStill

InitSearch == SearchInit /\ WatchStill /\ PathStill /\ HubStill /\ ReloadStill

InitWatch == WatchInit /\ PathStill /\ SearchStill /\ ReloadStill /\ HubStill

InitHub == HubInit /\ IndexStill /\ WatchStill /\ PathStill /\ SearchStill /\ ReloadStill

SpecIndex == InitIndex /\ [][IndexNext]_vars

SpecPath == InitPath /\ [][PathNext]_vars

SpecSearch == InitSearch /\ [][SearchNext]_vars

SpecWatch == InitWatch /\ [][WatchNext]_vars

SpecHub == InitHub /\ [][HubNext]_vars

InitReload ==
    ReloadInit /\ IndexStill /\ WatchStill /\ PathStill /\ SearchStill /\ HubStill

SpecReload == InitReload /\ [][ReloadNext]_vars

\* the index thread runs whenever it can: it takes the next event of the
\* channel, and a call it has begun goes on to its commit and its reload
WatchFairness ==
    /\ WF_vars(WatcherLoop)
    /\ WF_vars(UpdateFileCommit)
    /\ WF_vars(UpdateFileReload)
    /\ WF_vars(DeleteFileCommit)
    /\ WF_vars(DeleteFileReload)

SpecWatchLive == InitWatch /\ [][WatchNext]_vars /\ WatchFairness

\* the runtime runs every task that can take a step: handle_socket up to
\* the spawn of its two tasks, send_task, recv_task and the select! that
\* ends the connection.  The clients and the restart are under no duty.
HubFairness ==
    \A s \in Sessions :
        /\ WF_vars(FirstMessage(s))
        /\ WF_vars(ReplayAnnotations(s))
        /\ WF_vars(ReplayViewed(s))
        /\ WF_vars(Forward(s))
        /\ WF_vars(Abort(s))
        /\ WF_vars(Receive(s))
        /\ WF_vars(Write(s))
        /\ WF_vars(Send(s))

\* two sessions have joined a.md, which has no annotation and no viewed
\* state, and have had their replay; the client of A has sent
\* new_annotation with the id x, and the client of B a message of its own
\* or nothing
AskStart(n) ==
    /\ annotations = {}
    /\ viewed_state = {}
    /\ db = "free"
    /\ task = [s \in Sessions |-> "live"]
    /\ file_paths = [s \in Sessions |-> "a.md"]
    /\ rx = [s \in Sessions |-> Rx(TRUE, <<>>)]
    /\ sender = [s \in Sessions |->
                    <<AllAnnotations({}), ViewedState(EmptyState)>>]
    /\ \E frames \in {<<>>} \cup {<<Text(msg, "")>> : msg \in ClientMsgs} :
            receiver = [s \in Sessions |->
                          IF s = "A"
                          THEN <<Text(NewAnnotation(Annotation("x")), "")>>
                          ELSE frames]
    /\ job = [s \in Sessions |-> NoJob]
    /\ stderr = NoLine
    /\ budget = n

InitHubAsk ==
    AskStart(MaxFrames) /\ IndexStill /\ WatchStill /\ PathStill /\ SearchStill /\ ReloadStill

SpecHubAsk == InitHubAsk /\ [][HubNext]_vars /\ HubFairness

\* the least the runtime does for a session to end: recv_task goes on with
\* the mutation it has in hand, and select! is polled
EndFairness ==
    \A s \in Sessions :
        /\ WF_vars(Abort(s))
        /\ WF_vars(Write(s))
        /\ WF_vars(Send(s))

SpecHubEnd == InitHub /\ [][HubNext]_vars /\ EndFairness

\* a subscriber that has fallen behind: B joined a.md and has relayed
\* none of the events of the updates of the viewed state that followed,
\* as many as the channel retains; A joined after them.  The viewed state
\* of b.md was stored by a session that has left
LagStart(n) ==
    /\ annotations = {}
    /\ viewed_state = {ViewedRow("a.md", to_string("v1")),
                       ViewedRow("b.md", to_string("v1"))}
    /\ db = "free"
    /\ task = [s \in Sessions |-> "live"]
    /\ file_paths = [s \in Sessions |-> "a.md"]
    /\ rx = [s \in Sessions |->
                IF s = "B"
                THEN Rx(TRUE, [i \in 1..ChannelCapacity |-> ViewedState("v1")])
                ELSE Rx(TRUE, <<>>)]
    /\ sender = [s \in Sessions |->
                    IF s = "B"
                    THEN <<AllAnnotations({}), ViewedState(EmptyState)>>
                    ELSE <<AllAnnotations({}), ViewedState("v1")>>]
    /\ receiver = [s \in Sessions |-> <<>>]
    /\ job = [s \in Sessions |-> NoJob]
    /\ stderr = NoLine
    /\ budget = n

InitHubLag ==
    LagStart(MaxFrames) /\ IndexStill /\ WatchStill /\ PathStill /\ SearchStill /\ ReloadStill

SpecHubLag == InitHubLag /\ [][HubNext]_vars /\ EndFairness

\* a subscriber that has fallen behind before its first frame: B has
\* connected and has not yet declared its file, and the channel has seen
\* as many events since as it retains
LagFirstStart(n) ==
    /\ annotations = {}
    /\ viewed_state = {ViewedRow("a.md", to_string("v1")),
                       ViewedRow("b.md", to_string("v1"))}
    /\ db = "free"
    /\ task = [s \in Sessions |-> IF s = "B" THEN "first" ELSE "live"]
    /\ file_paths = [s \in Sessions |-> IF s = "B" THEN NoFile ELSE "a.md"]
    /\ rx = [s \in Sessions |->
                IF s = "B"
                THEN Rx(TRUE, [i \in 1..ChannelCapacity |-> ViewedState("v1")])
                ELSE Rx(TRUE, <<>>)]
    /\ sender = [s \in Sessions |->
                    IF s = "B"
                    THEN <<>>
                    ELSE <<AllAnnotations({}), ViewedState("v1")>>]
    /\ receiver = [s \in Sessions |-> <<>>]
    /\ job = [s \in Sessions |-> NoJob]
    /\ stderr = NoLine
    /\ budget = n

\* the runs of a subscriber that is behind, before or after its first
\* frame, with every step of the server under weak fairness
InitHubOverflow ==
    /\ LagStart(MaxFrames) \/ LagFirstStart(MaxFrames)
    /\ IndexStill /\ WatchStill /\ PathStill /\ SearchStill /\ ReloadStill

SpecHubOverflow == InitHubOverflow /\ [][HubNext]_vars /\ HubFairness

----------------------------------------------------------------------------
(* Properties of handle_path.                                              *)

\* the file or directory lies under the served directory
InsideRoot(path) ==
    /\ path.abs
    /\ Len(path.comps) >= 1
    /\ path.comps[1] = Name("root", NoExt)
    /\ \A i \in 1..Len(path.comps) : path.comps[i] # ParentDir

Served(r) == r.source # NoPath

\* C1: whatever path is requested, whatever it resolves to, the content
\* of a response (a rendered or static file, a directory listing) is read
\* from a file or directory that lies inside the root.
C1_ServedFromInsideRoot ==
    Served(response) => InsideRoot(response.source)

\* what canonicalize gave handle_path for the request it now answers: the
\* canonical path it holds, or the outcome of the call it has just made
Canonical(l, held, request) ==
    IF held # NoRequest THEN Ok(held.canonical_path)
    ELSE canonicalize(l, join(start_dir, request))

\* C2 as written: NotFound exactly when canonicalization fails, Forbidden
\* exactly when it succeeds with a canonical path outside the root.
C2_StatusFollowsCanonicalPath ==
    [][(response = NoResponse /\ response' # NoResponse) =>
          LET canonical == Canonical(link, checked, response'.request)
          IN  /\ response'.status = 404 <=> ~canonical.ok
              /\ response'.status = 403 <=>
                     (canonical.ok /\ ~InsideRoot(canonical.path))]_vars

\* C2: the containment check looks at the canonical path.  A request is
\* answered NotFound exactly when canonicalization fails or the canonical
\* path is inside the root and is neither a regular file nor a directory;
\* it is answered Forbidden exactly when canonicalization succeeds and the
\* canonical path is not under the root; nothing is served in either case.
C2_StatusFollowsCanonicalPathOrKind ==
    [][(response = NoResponse /\ response' # NoResponse) =>
          LET canonical == Canonical(link, checked, response'.request)
              special   == /\ canonical.ok
                           /\ InsideRoot(canonical.path)
                           /\ Node(link, canonical.path.comps).type = "fifo"
          IN  /\ response'.status = 404 <=> (~canonical.ok \/ special)
              /\ response'.status = 403 <=>
                     (canonical.ok /\ ~InsideRoot(canonical.path))
              /\ response'.status \in {403, 404} => ~Served(response')]_vars

\* a path that leads through the link to a file outside the root has been
\* refused
C2_Witness ==
    /\ response.status = 403
    /\ response.request = RelPath(<<Name("link", NoExt), Name("secret", "MD")>>)
    /\ link = AbsPath(DirEtc)

----------------------------------------------------------------------------
(* Properties of SearchIndex.                                              *)

\* what the tests expect of a file: its key, its words
KeyOf(path) ==
    IF path = FileA THEN "a.md"
    ELSE IF path = FileSubA THEN "sub/a.md"
    ELSE "n.txt"

MarkdownFiles == {FileA, FileSubA}

ExpectedDoc(path, content) ==
    [path |-> KeyOf(path), file_name |-> "a",
     title |-> IF content = ContentV1 THEN "Intro" ELSE "a",
     content |-> content]

ExpectedWords(content) ==
    IF content = ContentV1 THEN {"a", "Intro", "v1"} ELSE {"a", "v2"}

Under(snapshot, key) == SelectSeq(snapshot, LAMBDA d : d.path = key)

Others(snapshot, key) == SelectSeq(snapshot, LAMBDA d : d.path # key)

Docs(snapshot) == {snapshot[i] : i \in 1..Len(snapshot)}

\* C3: in the committed index and in the reader's snapshot every document is
\* stored under the path of a Markdown file relative to start_dir, and no
\* path has more than one document, whatever calls have been made.
C3_OneEntryPerPath ==
    \A snapshot \in {committed, reader} :
        /\ \A d \in Docs(snapshot) : \E path \in MarkdownFiles : d.path = KeyOf(path)
        /\ \A path \in MarkdownFiles : Len(Under(snapshot, KeyOf(path))) <= 1

C3_Witness ==
    /\ pc = "idle"
    /\ call.op = "delete" /\ res = "ok" /\ call.pred = "same_path"
    /\ Len(reader) = 1
    /\ reader[1].path = "sub/a.md"

\* C4: while update_file(p) runs for a p that the index and the reader held
\* when it started, a searcher finds exactly one document for p, and it is
\* the old one or the new one.
C4_UpdateIsAtomic ==
    (/\ pc \in {"update_commit", "update_reload"}
     /\ Len(Under(call.before, KeyOf(call.path))) = 1
     /\ Len(Under(call.base, KeyOf(call.path))) = 1)
    => LET seen == Under(reader, KeyOf(call.path))
       IN  /\ Len(seen) = 1
           /\ seen[1] \in Docs(Under(call.before, KeyOf(call.path)))
                          \cup Docs(Under(call.base, KeyOf(call.path)))
                          \cup {ExpectedDoc(call.path, call.content)}

C4_Witness ==
    /\ pc = "update_reload"
    /\ Len(Under(call.before, KeyOf(call.path))) = 1
    /\ Len(Under(call.base, KeyOf(call.path))) = 1
    /\ reader # committed
    /\ Under(reader, KeyOf(call.path)) # Under(committed, KeyOf(call.path))
    /\ Len(reader) = 2

\* C5: once update_file(p) has returned Ok for a Markdown file, a search for
\* a word of the content it read finds exactly one document for p, and a
\* search for any other word finds none for p; so also after every rewrite.
C5_UpdateRoundTrip ==
    (pc = "idle" /\ call.op = "update" /\ res = "ok" /\ call.path \in MarkdownFiles)
    => \A q \in QueryTerms :
          Len(Under(Hits(reader, q), KeyOf(call.path)))
              = IF q \in ExpectedWords(call.content) THEN 1 ELSE 0

C5_Witness ==
    /\ pc = "idle" /\ call.op = "update" /\ res = "ok"
    /\ call.path = FileA
    /\ call.pred = "same_path"
    /\ call.content = ContentV2
    /\ Len(Hits(reader, "v1")) = 1

\* C6: when update_file(p) returns Ok right after an update_file(p) that
\* returned Ok with the same content, p has one document and every query has
\* the hits it had after the first call.
C6_UpdateIsIdempotent ==
    [][(pc = "update_reload" /\ res' = "ok" /\ call.pred = "same_update")
       => /\ Len(Under(reader', KeyOf(call.path))) = 1
          /\ \A q \in QueryTerms :
                /\ Docs(Hits(reader', q)) = Docs(Hits(call.before, q))
                /\ Len(Hits(reader', q)) = Len(Hits(call.before, q))]_indexVars

C6_Witness ==
    /\ pc = "idle" /\ call.op = "update" /\ res = "ok"
    /\ call.pred = "same_update"
    /\ Len(reader) = 2

\* C7: once delete_file(p) has returned Ok, no query has a hit for p, in
\* particular when it follows an update_file(p).
C7_DeleteAfterUpdate ==
    (pc = "idle" /\ call.op = "delete" /\ res = "ok")
    => /\ \A q \in QueryTerms : Under(Hits(reader, q), KeyOf(call.path)) = <<>>
       /\ Under(reader, KeyOf(call.path)) = <<>>

C7_Witness ==
    /\ pc = "idle" /\ call.op = "delete" /\ res = "ok"
    /\ call.path = FileA
    /\ call.pred = "same_path"
    /\ Len(reader) = 1

\* C8: the commit of delete_file(p) leaves the documents of every other path
\* as they were in the index when the call started.
C8_DeleteOnlyExactPath ==
    pc = "delete_reload"
    => Others(committed, KeyOf(call.path)) = Others(call.base, KeyOf(call.path))

\* C9: no document of a file with another extension is ever queued, committed
\* or visible, and update_file on such a path changes nothing of the index.
NoForeignDocument ==
    /\ \A snapshot \in {committed, reader} :
          \A d \in Docs(snapshot) : d.path # "n.txt" /\ d.file_name # "n"
    /\ \A i \in 1..Len(writer) :
          writer[i].op = "add" => writer[i].doc.file_name # "n"

C9_OnlyMarkdownIndexed ==
    /\ []NoForeignDocument
    /\ [][(pc = "idle" /\ call'.op = "update" /\ call'.path = FileN
           /\ <<call, res>>' # <<call, res>>)
          => (res' = "ok" /\ UNCHANGED <<writer, committed, reader, pc>>)]_indexVars

C9_Witness ==
    /\ pc = "idle" /\ call.op = "update" /\ call.path = FileN /\ res = "ok"
    /\ disk[FileN].kind = "file"
    /\ Len(reader) = 2

\* C10: a file that cannot be read never ends the walk of index_directory:
\* new() fails only on an engine failure, and the commit holds one document
\* for exactly the Markdown files that were readable when the walk came to them.
C10_ScanSkipsUnreadable ==
    /\ pc # "aborted"
    /\ pc = "failed" => faults >= 1
    /\ pc = "walk_reload" =>
          /\ \A path \in MarkdownFiles :
                Len(Under(committed, KeyOf(path)))
                    = IF scan[path] = "file" THEN 1 ELSE 0
          /\ Len(committed) <= Cardinality(MarkdownFiles)

C10_Witness ==
    /\ pc = "walk_reload"
    /\ scan[FileA] = "unreadable"
    /\ scan[FileSubA] = "file"
    /\ Len(Under(committed, "sub/a.md")) = 1

----------------------------------------------------------------------------
(* Properties of search and search_handler.                                *)

\* the documents of a snapshot that hold a word of the query
Matching(snapshot, q) ==
    {i \in 1..Len(snapshot) :
        \E k \in 1..Len(QueryWords(q)) : QueryWords(q)[k] \in Tokens(snapshot[i])}

Min(a, b) == IF a < b THEN a ELSE b

\* the call returned the best `limit` matching documents, best first
TopOfMatching(snapshot, q, limit, outcome) ==
    LET top == outcome.top_docs
        got == {top[i].doc : i \in 1..Len(top)}
    IN  /\ outcome.kind = "ok"
        /\ Len(outcome.results) = Min(limit, Cardinality(Matching(snapshot, q)))
        /\ Len(top) = Len(outcome.results)
        /\ Cardinality(got) = Len(top)
        /\ got \subseteq Matching(snapshot, q)
        /\ \A i \in 1..Len(top) :
              /\ top[i].score = Score(snapshot[top[i].doc], QueryWords(q))
              /\ outcome.results[i].file_path = snapshot[top[i].doc].path
        /\ \A i \in 1..(Len(top) - 1) : top[i].score >= top[i + 1].score
        /\ \A d \in Matching(snapshot, q) \ got :
              \A i \in 1..Len(top) : Score(snapshot[d], QueryWords(q)) <= top[i].score

\* C11: search(query, limit) of a well-formed query returns exactly
\* min(limit, number of matching documents) results, the best ones, in
\* descending order of score; in particular never more than limit.
C11_SearchReturnsTopLimit ==
    (found.op = "search" /\ ~Malformed(found.q)) =>
        TopOfMatching(reader, found.q, found.limit, found.outcome)

\* C12: search_handler answers an empty query, a request while search is
\* disabled and a request without an index with the empty array, without
\* taking a searcher from the index; it never answers more than 20 results.
C12_HandlerEmptyAndCapped ==
    found.op = "search_handler" =>
        /\ Len(found.outcome.results) <= 20
        /\ (found.q = "" \/ ~enable_search \/ search_index = "None") =>
              /\ found.outcome.kind = "ok"
              /\ found.outcome.results = <<>>
              /\ ~found.outcome.searched

\* search is disabled, the index is full and the query has matches
C12_Witness ==
    /\ found.op = "search_handler"
    /\ ~enable_search
    /\ search_index = "Some"
    /\ Len(reader) = MaxDocs
    /\ found.q = "Common"
    /\ found.outcome.results = <<>>

\* a malformed query: Err from search, the empty array from search_handler
MalformedIsAnError ==
    /\ (found.op = "search" /\ Malformed(found.q)) =>
          /\ found.outcome.kind = "err"
          /\ found.outcome.results = <<>>
    /\ (found.op = "search_handler" /\ Malformed(found.q)) =>
          /\ found.outcome.kind = "ok"
          /\ found.outcome.results = <<>>

\* the call after a malformed query gives what it would have given anyway
SearchWorksAfterError ==
    (found.after_error /\ ~Malformed(found.q)) =>
        /\ (found.op = "search" /\ found.limit >= 1) =>
              TopOfMatching(reader, found.q, found.limit, found.outcome)
        /\ (found.op = "search_handler" /\ enable_search
               /\ search_index = "Some" /\ found.q # "") =>
              TopOfMatching(reader, found.q, 20, found.outcome)

\* C13: a malformed query makes search return Err, not panic, and
\* search_handler answer the empty array; no search changes the writer, the
\* committed index or the reader, and the searches after it work.
C13_MalformedQueryIsContained ==
    /\ [](MalformedIsAnError /\ SearchWorksAfterError)
    /\ [][found' # found => UNCHANGED <<writer, committed, reader>>]_vars

\* a full answer of the endpoint right after a malformed query
C13_Witness ==
    /\ found.after_error
    /\ found.op = "search_handler"
    /\ found.q = "Common rare"
    /\ Len(found.outcome.results) = 20
    /\ Len(reader) = MaxDocs

----------------------------------------------------------------------------
(* Properties of the watcher and the index together.                       *)

\* every event has been delivered and processed
Quiescent == events = <<>> /\ pc = "idle" /\ reader = committed

\* the visible index holds exactly the readable Markdown files, each with
\* its current content (a file that exists but cannot be read is left open)
InSync ==
    \A path \in MarkdownFiles :
        /\ Readable(disk[path]) =>
              Under(reader, KeyOf(path)) = <<ExpectedDoc(path, disk[path].content)>>
        /\ disk[path] = Absent => Under(reader, KeyOf(path)) = <<>>

\* C14: once every event of the creations, modifications, renames and
\* deletions has been delivered and processed, and no call of the index
\* engine has failed, the visible index equals the Markdown files on disk.
C14_IndexFollowsDisk ==
    (Quiescent /\ faults = 0) => InSync

----------------------------------------------------------------------------
(* Properties of handle_socket.                                            *)

\* some receiver of the channel got an event in this step
Published == \E t \in Sessions : Len(rx'[t].queue) > Len(rx[t].queue)

\* the server takes the first frame of s in this step and it is no text
\* frame: the connection ended, gave an error, or sent another kind of frame
BadFirstFrame(s) ==
    /\ task[s] = "first"
    /\ task'[s] # "first"
    /\ receiver[s] # <<>>
    /\ Head(receiver[s]).kind # "text"

\* C15: when the first frame of a connection is absent or is no text frame,
\* handle_socket closes the connection and does nothing else: nothing was
\* or is sent to the client (no replay, no relayed event, although the
\* receiver of the channel was subscribed before), the store is left as it
\* is and nothing is published.
C15_BadFirstFrameOnlyCloses ==
    /\ [](\A s \in Sessions : task[s] = "first" => sender[s] = <<>>)
    /\ [][\A s \in Sessions :
            BadFirstFrame(s) =>
                /\ task'[s] = "closed"
                /\ sender'[s] = <<>>
                /\ UNCHANGED <<annotations, viewed_state>>
                /\ ~Published]_vars

\* a connection was closed for its first frame while another session is
\* live on a store that holds an annotation
C15_Witness ==
    /\ stderr = NoFilePathLine
    /\ annotations # {}
    /\ \E s, t \in Sessions : task[s] = "closed" /\ task[t] = "live"

\* what the store holds for a file: the annotations of its rows, and its
\* viewed state, an empty object when it has none
StoredAnnotations(path) ==
    {row.data.value : row \in {r \in annotations : r.file_path = path}}

StoredState(path) ==
    IF \E row \in viewed_state : row.file_path = path
    THEN (CHOOSE row \in viewed_state : row.file_path = path).state.value
    ELSE EmptyState

Persisted(msg, path) ==
    CASE msg.type = "new_annotation" ->
            AnnotationRow(msg.annotation.id, path, to_string(msg.annotation))
                \in annotations
      [] msg.type = "delete_annotation" ->
            ~\E row \in annotations : row.id = msg.id /\ row.file_path = path
      [] msg.type = "clear_annotations" ->
            ~\E row \in annotations : row.file_path = path
      [] msg.type = "update_viewed_state" ->
            ViewedRow(path, to_string(msg.state)) \in viewed_state
      [] OTHER -> FALSE

\* the event that this step put on the channel
PublishedEvent ==
    LET t == CHOOSE t \in Sessions : Len(rx'[t].queue) > Len(rx[t].queue)
    IN  rx'[t].queue[Len(rx'[t].queue)]

\* C17: for each of the four mutations the write comes first: an event is
\* put on the channel only by a session that has a mutation in hand whose
\* write is already in the store, the event is the one of that mutation,
\* and the step that writes to the store publishes nothing.
C17_WriteBeforeBroadcast ==
    [][/\ Published =>
            \E s \in Sessions :
                /\ job[s] # NoJob
                /\ IsMutation(job[s].msg)
                /\ Persisted(job[s].msg, file_paths[s])
                /\ PublishedEvent = BroadcastMsg(job[s].msg)
       /\ (annotations' # annotations \/ viewed_state' # viewed_state) =>
            ~Published]_vars

\* the event of a new annotation is on the channel and its row is in the
\* store
C17_Witness ==
    \E s, t \in Sessions :
        /\ rx[t].queue # <<>>
        /\ Head(rx[t].queue).type = "new_annotation"
        /\ AnnotationRow(Head(rx[t].queue).annotation.id, file_paths[s],
                         to_string(Head(rx[t].queue).annotation))
                \in annotations

\* the frame of C18: new_annotation with the id x
NewX == NewAnnotation(Annotation("x"))

\* two live sessions declared the file path, and the client of a has sent
\* new_annotation with the id x
Asked(a, b, path) ==
    /\ a # b
    /\ task[a] = "live" /\ rx[a].live /\ file_paths[a] = path
    /\ task[b] = "live" /\ rx[b].live /\ file_paths[b] = path
    /\ receiver[a] = <<Text(NewX, "")>>

\* the event was relayed to s on its connection
Received(s) == \E i \in 3..Len(sender[s]) : sender[s][i] = NewX

\* the connection of s is over or its relay has ended, and not by a panic
\* that left the lock poisoned: the client left, the socket failed or the
\* process was restarted
Left(s) ==
    /\ db # "poisoned"
    /\ task[s] # "live" \/ ~rx[s].live

\* the store refused a statement, which is the case of C19 and not of C18
StoreFailed == stderr = SqliteFailure

\* C18: with two live sessions a and b on the same file, when a sends
\* new_annotation with the id x, each of the two receives the event (or
\* has left before it could) and the annotation comes to be stored under
\* the file, unless the store refuses a statement; a restart of the
\* process leaves the store as it is, so that the replay of C16 gives the
\* annotation to a session that joins later.
C18_BroadcastAndPersist ==
    /\ \A a, b \in Sessions : \A path \in FilePaths :
        /\ Asked(a, b, path) ~> (Received(a) \/ Left(a) \/ StoreFailed)
        /\ Asked(a, b, path) ~> (Received(b) \/ Left(b) \/ StoreFailed)
        /\ Asked(a, b, path) ~>
                (AnnotationRow("x", path, to_string(Annotation("x")))
                        \in annotations
                    \/ Left(a) \/ StoreFailed)
    /\ [][(\A s \in Sessions : task'[s] = "closed") =>
                UNCHANGED <<annotations, viewed_state>>]_vars

\* the process was restarted in this step
Restarted == db' = "free" /\ \A t \in Sessions : task'[t] = "closed"

\* the statement of the mutation that s has in hand failed in this step:
\* the mutation is dropped where it would have gone on to the broadcast
WriteFailed(s) ==
    /\ job[s] # NoJob
    /\ Head(job[s].steps) = "execute"
    /\ job'[s] = NoJob
    /\ ~Restarted

\* C19: when the write of a mutation fails, the error is logged, nothing
\* is published for it, the store is as it was, and the session stays
\* connected with the lock free for the messages that follow.
C19_FailedWriteIsContained ==
    [][\A s \in Sessions :
        WriteFailed(s) =>
            /\ stderr' # NoLine
            /\ ~Published
            /\ UNCHANGED <<annotations, viewed_state>>
            /\ task'[s] = "live"
            /\ db' = "free"]_vars

\* a text frame that is not one of the four mutations in good form: a text
\* that does not parse, a message of another type, a new_annotation
\* without a string id
MalformedFrame(frame) ==
    /\ frame.kind = "text"
    /\ \/ frame.msg = NoMsg
       \/ frame.msg.type \notin {"new_annotation", "delete_annotation",
                                 "clear_annotations", "update_viewed_state"}
       \/ frame.msg.type = "delete_annotation" /\ frame.msg.id = NoId
       \/ frame.msg.type = "new_annotation" /\ frame.msg.annotation.id = NoId

\* recv_task of the connected session s takes a malformed frame in this step
TakesMalformed(s) ==
    /\ task[s] = "live"
    /\ rx[s].live
    /\ job[s] = NoJob
    /\ receiver[s] # <<>>
    /\ MalformedFrame(Head(receiver[s]))
    /\ receiver'[s] # receiver[s]
    /\ ~Restarted

\* C20: a malformed message is skipped: the store is unchanged, nothing
\* is published, no mutation is taken in hand, and the session stays
\* connected with the lock as it was, ready for the frames that follow.
C20_MalformedIsIgnored ==
    [][\A s \in Sessions :
        TakesMalformed(s) =>
            /\ UNCHANGED <<annotations, viewed_state, db>>
            /\ ~Published
            /\ job'[s] = NoJob
            /\ task'[s] = "live"]_vars

\* the session t is ended in this step because it cannot take the lock of
\* the store: lock().unwrap() panics on the Mutex that a panic of another
\* task has poisoned, at the replay or for a message of the client
LockRefused(t) ==
    /\ db = "poisoned"
    /\ db' = "poisoned"
    /\ task'[t] \in {"closed", "finished"}
    /\ \/ task[t] \in {"annotations", "viewed"}
       \/ /\ task[t] = "live"
          /\ rx[t].live
          /\ receiver[t] # <<>>
          /\ IsText(Head(receiver[t]))
          /\ ParseMsg(Head(receiver[t]))

\* C21: whatever a session sends and however its handling fails, the
\* other sessions can still take the lock of the store: no session is
\* ever ended because the lock is refused to it.
C21_ErrorsStayInTheirSession ==
    [][\A t \in Sessions : ~LockRefused(t)]_vars

\* send_task of s is over: its receiver of the channel is dropped
SendTaskOver(s) == task[s] = "live" /\ ~rx[s].live

\* recv_task of s is over
RecvTaskOver(s) == task[s] = "finished"

\* neither task of s runs and the session holds nothing: no mutation in
\* hand, no lock, no receiver of the channel
Terminated(s) ==
    /\ task[s] = "closed"
    /\ job[s] = NoJob
    /\ db # s
    /\ ~rx[s].live

\* C22: when send_task or recv_task of a session is over, the session
\* comes to be terminated; a session whose recv_task is over has no
\* mutation in hand and does not hold the lock, and a closed session holds
\* no receiver of the channel.
C22_SessionTermination ==
    /\ \A s \in Sessions :
            (SendTaskOver(s) \/ RecvTaskOver(s)) ~> Terminated(s)
    /\ [](\A s \in Sessions :
            task[s] \in {"closed", "finished"} => job[s] = NoJob /\ db # s)
    /\ [](\A s \in Sessions : task[s] = "closed" => ~rx[s].live)

\* send_task of a session is over, because the socket refused an event,
\* while its recv_task still runs and another session has got the event
C22_Witness ==
    \E s, t \in Sessions :
        /\ s # t
        /\ SendTaskOver(s)
        /\ task[t] = "live"
        /\ Len(sender[t]) > 2

\* recv_task of s publishes the event of the mutation it has in hand in
\* this step, and send gives Ok
Publishes(s) ==
    /\ job[s] # NoJob
    /\ Head(job[s].steps) = "send"
    /\ job'[s] # job[s]
    /\ task'[s] = "live"

\* the receiver with this queue is behind by all the channel retains
Behind(queue) == Len(Pending(queue)) = ChannelCapacity

\* C23: a session that has a mutation in hand comes to the end of it even
\* if no send_task ever relays another event, however far behind the
\* receivers are; when it publishes, the write is in the store, the event
\* is the newest of every live receiver, and a receiver that is not behind
\* by all the channel retains loses nothing: only the one that is loses
\* its oldest event.
C23_SlowClientDoesNotBlock ==
    /\ \A s \in Sessions : (job[s] # NoJob) ~> (job[s] = NoJob)
    /\ [][\A s \in Sessions :
            Publishes(s) =>
                /\ Persisted(job[s].msg, file_paths[s])
                /\ \A t \in Sessions :
                    rx[t].live =>
                        /\ rx'[t].live
                        /\ rx'[t].queue[Len(rx'[t].queue)] =
                                BroadcastMsg(job[s].msg)
                        /\ ~Behind(rx[t].queue) =>
                                rx'[t].queue =
                                    Append(rx[t].queue,
                                           BroadcastMsg(job[s].msg))]_vars

\* a receiver fell behind by more than the channel retains while another
\* session wrote a new annotation, published it and had it relayed
C23_Witness ==
    \E s, t \in Sessions :
        /\ rx[t].live
        /\ rx[t].queue # <<>>
        /\ Head(rx[t].queue) = Lagged
        /\ Len(sender[s]) > 2
        /\ sender[s][3].type = "new_annotation"
        /\ sender[s][3] = rx[t].queue[Len(rx[t].queue)]
        /\ AnnotationRow(sender[s][3].annotation.id, file_paths[s],
                         to_string(sender[s][3].annotation)) \in annotations

\* the sequence a ends the sequence b
IsSuffix(a, b) ==
    /\ Len(a) <= Len(b)
    /\ a = SubSeq(b, Len(b) - Len(a) + 1, Len(b))

\* send_task of s relays an event to its client in this step
Relays(s) ==
    /\ task[s] \in {"live", "finished"}
    /\ task'[s] = task[s]
    /\ sender'[s] # sender[s]

\* the receiver of s stays and what it holds changes in this step
QueueChanges(s) ==
    /\ rx[s].live
    /\ rx'[s].live
    /\ task'[s] = task[s]
    /\ rx'[s].queue # rx[s].queue

\* C24: the events are relayed to each subscriber in the order in which
\* they were published.  The receivers hold the events of one sequence,
\* the order of publishing: of two live receivers one holds the end of what
\* the other holds.  A receiver changes only by an event published, which
\* becomes its newest, or by giving up its oldest; and what send_task
\* relays to the client is always the oldest event its receiver holds.
C24_DeliveryInPublishOrder ==
    /\ [](\A s, t \in Sessions :
            rx[s].live /\ rx[t].live =>
                \/ IsSuffix(Pending(rx[s].queue), Pending(rx[t].queue))
                \/ IsSuffix(Pending(rx[t].queue), Pending(rx[s].queue)))
    /\ [][\A s \in Sessions :
            /\ QueueChanges(s) =>
                IF Len(rx'[s].queue) < Len(rx[s].queue)
                THEN rx'[s].queue = Tail(rx[s].queue)
                ELSE rx'[s].queue =
                        Enqueue(rx[s].queue,
                                rx'[s].queue[Len(rx'[s].queue)])
            /\ Relays(s) =>
                /\ rx[s].queue # <<>>
                /\ sender'[s] = Append(sender[s], Head(rx[s].queue))
                /\ rx'[s].queue = Tail(rx[s].queue)]_vars

\* a subscriber that was behind has been relayed an old event and, after
\* it, a different event that was published later
C24_Witness ==
    \E s \in Sessions :
        /\ Len(sender[s]) > 3
        /\ sender[s][3] = ViewedState("v1")
        /\ sender[s][Len(sender[s])] # ViewedState("v1")

\* the rows of the viewed state of a file
StateRows(path) == {row \in viewed_state : row.file_path = path}

\* the statement of update_viewed_state that s has in hand commits in this
\* step
WritesState(s) ==
    /\ job[s] # NoJob
    /\ job[s].msg.type = "update_viewed_state"
    /\ Head(job[s].steps) = "execute"
    /\ job'[s] = Job(job[s].msg, Tail(job[s].steps))

ReplayReads(s) ==
    /\ task[s] \in {"annotations", "viewed"}
    /\ Len(sender'[s]) > Len(sender[s])

\* C28: one lock protects the store.  It is held by a session exactly
\* while its recv_task has a mutation in hand, between taking a frame and
\* going back to await the next one, so at most one task holds it and none
\* holds it while it awaits a frame, a socket send or an event of the
\* channel; the tables change only by the statement of the holder; and the
\* replay reads them only when no recv_task holds the lock.
C28_StoreUnderOneLock ==
    /\ [](\A s \in Sessions : db = s <=> job[s] # NoJob)
    /\ [](\A s \in Sessions : db = s => task[s] = "live")
    /\ [][(annotations' # annotations \/ viewed_state' # viewed_state) =>
            /\ db \in Sessions
            /\ Head(job[db].steps) = "execute"
            /\ \A s \in Sessions \ {db} : job[s] = NoJob]_vars
    /\ [][\A s \in Sessions :
            ReplayReads(s) => db = "free" /\ db' = "free"]_vars

\* a recv_task holds the lock between its write and its publish while
\* another session waits for it to read its replay
C28_Witness ==
    \E s, t \in Sessions :
        /\ db = s
        /\ Head(job[s].steps) = "send"
        /\ task[t] = "annotations"

\* C29: the events are not filtered by file path.  The event a session
\* publishes becomes the newest event of every live receiver, also of a
\* session that declared another file, and a send_task relays the oldest
\* event of its receiver whatever file the event is about.
C29_RelayedToAllFiles ==
    /\ [][\A s \in Sessions :
            Publishes(s) =>
                \A t \in Sessions :
                    (rx[t].live /\ file_paths[t] # file_paths[s]) =>
                        /\ rx'[t].live
                        /\ rx'[t].queue # <<>>
                        /\ rx'[t].queue[Len(rx'[t].queue)] =
                                BroadcastMsg(job[s].msg)]_vars
    /\ [][\A t \in Sessions :
            (Relays(t) /\ task[t] = "live") =>
                /\ rx[t].queue # <<>>
                /\ sender'[t] = Append(sender[t], Head(rx[t].queue))]_vars

\* the client of a session that declared one file has received the event
\* of an annotation that a session of another file has stored
C29_Witness ==
    \E s, t \in Sessions :
        /\ file_paths[s] # NoFile
        /\ file_paths[t] # NoFile
        /\ file_paths[s] # file_paths[t]
        /\ Len(sender[t]) > 2
        /\ sender[t][3].type = "new_annotation"
        /\ AnnotationRow(sender[t][3].annotation.id, file_paths[s],
                         to_string(sender[t][3].annotation)) \in annotations
        /\ StoredAnnotations(file_paths[t]) = {}

\* the events s has been given since it subscribed: those relayed to its
\* client after the replay and those that wait in its receiver
Given(s) == SubSeq(sender[s], 3, Len(sender[s])) \o rx[s].queue

\* the annotations of the replay that the client of s was sent
Replayed(s) == sender[s][1].annotations

\* s has read its replay and its receiver has missed nothing
Following(s) ==
    /\ task[s] \in {"viewed", "live", "finished"}
    /\ rx[s].live
    /\ \A i \in 1..Len(rx[s].queue) : rx[s].queue[i] # Lagged

\* a write has been made whose event is not published yet
Unpublished == \E t \in Sessions : job[t] # NoJob /\ Head(job[t].steps) = "send"

\* C32: no mutation is lost between replay and relay.  A session
\* subscribes when it connects and its receiver is there when it reads
\* its replay; and for a session that has read its replay and has missed
\* nothing, once the writes made are published, every annotation stored
\* for its file was in the replay or is in a new_annotation it was given,
\* and every annotation of the replay that is no longer stored for the
\* file is named by an event it was given.
C32_NothingLostBetweenReplayAndRelay ==
    /\ [][\A s \in Sessions :
            /\ (task[s] = "closed" /\ task'[s] = "first") => rx'[s].live
            /\ ReplayReads(s) => rx[s].live /\ rx'[s] = rx[s]]_vars
    /\ [](\A s \in Sessions :
            (Following(s) /\ ~Unpublished) =>
                /\ \A a \in StoredAnnotations(file_paths[s]) :
                        \/ a \in Replayed(s)
                        \/ \E i \in 1..Len(Given(s)) :
                                Given(s)[i] = NewAnnotation(a)
                /\ \A a \in Replayed(s) \ StoredAnnotations(file_paths[s]) :
                        \E i \in 1..Len(Given(s)) :
                            \/ Given(s)[i] = DeleteAnnotation(a.id)
                            \/ Given(s)[i] = ClearAnnotations
                            \/ Given(s)[i] = NewAnnotation(a))

\* an annotation was stored after s subscribed and before s read its
\* replay: it is in the replay and its event was relayed as well
C32_Witness ==
    \E s \in Sessions :
        /\ task[s] = "live"
        /\ Len(sender[s]) > 2
        /\ sender[s][3].type = "new_annotation"
        /\ sender[s][3].annotation \in Replayed(s)
        /\ sender[s][3].annotation \in StoredAnnotations(file_paths[s])

\* the receiver of s has missed events: recv gives Err(Lagged) next
Overflowed(s) == rx[s].queue # <<>> /\ Head(rx[s].queue) = Lagged

\* C33: a session never skips events silently.  What its send_task relays
\* is the oldest event of its receiver, never one that follows a gap; a
\* receiver that has missed events ends with the next step of send_task
\* and is not replaced while the connection lasts; and a session whose
\* receiver has missed events, once it has sent its first frame, comes to
\* be closed.
C33_NoSilentGap ==
    /\ [][\A s \in Sessions :
            /\ Relays(s) =>
                /\ ~Overflowed(s)
                /\ rx[s].queue # <<>>
                /\ sender'[s] = Append(sender[s], Head(rx[s].queue))
                /\ rx'[s].queue = Tail(rx[s].queue)
            /\ (Overflowed(s) /\ rx'[s] # rx[s]) =>
                \/ ~rx'[s].live
                \/ /\ rx'[s].queue # <<>>
                   /\ Head(rx'[s].queue) = Lagged
                   /\ sender'[s] = sender[s]
            /\ (~rx[s].live /\ task[s] # "closed" /\ task'[s] # "closed") =>
                ~rx'[s].live]_vars
    /\ \A s \in Sessions :
            (Overflowed(s) /\ task[s] \notin {"closed", "first"})
                ~> (task[s] = "closed")

\* the receiver of a session overflowed before the session sent its first
\* frame, and the session is now at its replay
C33_Witness ==
    \E s \in Sessions :
        /\ Overflowed(s)
        /\ task[s] \in {"annotations", "viewed"}
        /\ Len(rx[s].queue) = ChannelCapacity + 1

\* s has written and not yet published
WrittenNotPublished(s) == job[s] # NoJob /\ Head(job[s].steps) = "send"

\* the statement of s commits in this step
Writes(s) ==
    /\ job[s] # NoJob
    /\ Head(job[s].steps) = "execute"
    /\ WrittenNotPublished(s)'

\* C34: the events are published in the order of their writes.  A session
\* that has written keeps the lock until it has published, so no other
\* write and no other publish comes between the write of a mutation and
\* its publish: at most one write awaits its publish, a session writes
\* only when none does, and the event published next is the one of that
\* write.
C34_PublishedInWriteOrder ==
    /\ [](\A s \in Sessions : WrittenNotPublished(s) => db = s)
    /\ [][\A s \in Sessions :
            /\ Writes(s) => \A t \in Sessions : ~WrittenNotPublished(t)
            /\ WrittenNotPublished(s) =>
                /\ UNCHANGED <<annotations, viewed_state>>
                /\ Published =>
                    /\ Publishes(s)
                    /\ PublishedEvent = BroadcastMsg(job[s].msg)]_vars

\* two sessions have written to the same file one after the other, and a
\* client has been relayed the two events in that order
C34_Witness ==
    \E s \in Sessions :
        /\ Len(sender[s]) > 3
        /\ sender[s][3] = NewAnnotation(Annotation("x"))
        /\ sender[s][4] = DeleteAnnotation("x")
        /\ annotations = {}

\* the rows of the annotations stored under a file
RowsOf(table, path) == {row \in table : row.file_path = path}

\* C35: a mutation is scoped to the file of its sender.  When the
\* statement of a session commits, the rows stored under every other file
\* are what they were.
C35_ScopedToSendersFile ==
    [][\A s \in Sessions :
            Writes(s) =>
                \A g \in FilePaths \ {file_paths[s]} :
                    RowsOf(annotations', g) = RowsOf(annotations, g)]_vars

\* what a client does with an event: new_annotation puts the annotation in
\* place of the one with its id, delete_annotation takes the one with the
\* id away, clear_annotations takes all away
ApplyEvent(view, event) ==
    CASE event.type = "new_annotation" ->
            {a \in view : a.id # event.annotation.id} \cup {event.annotation}
      [] event.type = "delete_annotation" ->
            {a \in view : a.id # event.id}
      [] event.type = "clear_annotations" -> {}
      [] OTHER -> view

RECURSIVE ApplyEvents(_, _)
ApplyEvents(view, evs) ==
    IF evs = <<>> THEN view
    ELSE ApplyEvents(ApplyEvent(view, Head(evs)), Tail(evs))

\* the annotations the client of s holds: its replay and the events that
\* were relayed to it since
ClientView(s) ==
    ApplyEvents(Replayed(s), SubSeq(sender[s], 3, Len(sender[s])))

\* s is connected, has missed nothing, and has been relayed every event
\* published
UpToDate(s) ==
    /\ task[s] = "live"
    /\ rx[s].live
    /\ rx[s].queue = <<>>
    /\ ~Unpublished

\* C36: the views of the clients converge to the store.  A client that
\* has been relayed every event published, and has missed none, holds for
\* its file the annotations that are stored for that file.
C36_ViewsConverge ==
    \A s \in Sessions :
        UpToDate(s) => ClientView(s) = StoredAnnotations(file_paths[s])

\* C37: a publish never fails for lack of subscribers.  Whenever a session
\* has written and is about to publish, some receiver of the channel is
\* live, and no recv_task has panicked at the send.
C37_PublishFindsSubscriber ==
    /\ \A s \in Sessions :
            WrittenNotPublished(s) => \E t \in Sessions : rx[t].live
    /\ stderr # SendError

----------------------------------------------------------------------------
(* Properties of the index under failures and of the watcher.              *)

\* the commit of update_file or delete_file fails in this step
CommitFails ==
    /\ pc \in {"update_commit", "delete_commit"}
    /\ pc' = "idle"
    /\ res' = "err"

\* no call of update_file or delete_file runs in this step
BetweenCalls == pc = "idle" /\ pc' = "idle"

Running ==
    pc \in {"update_commit", "update_reload", "delete_commit", "delete_reload"}

\* update_file or delete_file has returned Ok for a Markdown file and no
\* call has started since
ReturnedOk ==
    /\ pc = "idle"
    /\ res = "ok"
    /\ call.op \in {"update", "delete"}
    /\ call.path \in MarkdownFiles

\* the reader shows what the call has done
Reflected ==
    /\ reader = committed
    /\ Docs(Under(reader, KeyOf(call.path))) =
            IF call.op = "update"
            THEN {ExpectedDoc(call.path, call.content)}
            ELSE {}

\* a commit is made in this step
Commits == committed' # committed

EventsOf(queue, path) ==
    {i \in 1..Len(queue) :
        \E j \in 1..Len(queue[i].paths) : queue[i].paths[j] = path}

\* the file at the path, and no other, is written in this step
WrittenAgain(path) ==
    /\ disk'[path] # disk[path]
    /\ \A other \in Files \ {path} : disk'[other] = disk[other]

\* C30: the events of a burst are coalesced.  When a file is written again
\* while the event of its last write still waits in the channel and the
\* index thread is idle, the channel holds one event for that path after
\* the write, so that the burst causes one call of update_file or
\* delete_file.
C30_BurstIsOneEvent ==
    [][\A path \in Files :
            (/\ pc = "idle"
             /\ EventsOf(events, path) # {}
             /\ WrittenAgain(path)) =>
                Cardinality(EventsOf(events', path)) = 1]_vars
\* the index thread takes a path of the first event in this step
Taken == events # <<>> /\ events' = RestOf(events)

\* a call of the index thread ends with an error in this step
CallFails ==
    /\ res' = "err"
    /\ pc # "idle" \/ Taken

\* C31: a failure does not stop the watch loop.  When a call of update_file
\* or delete_file fails, the thread is back at the channel with every
\* event but the one it took still there, an error of the backend leaves
\* the channel and the thread as they are, and whatever the result of the
\* last call the idle thread takes the event that waits: after a failed
\* call a full channel gets room again.
C31_LoopSurvivesFailures ==
    /\ [][CallFails =>
            /\ pc' = "idle"
            /\ events' = events \/ Taken]_vars
    /\ [][(faults' # faults /\ disk' # disk) =>
            UNCHANGED <<events, pc, res, reader, committed>>]_vars
    /\ []((pc = "idle" /\ events # <<>>) => ENABLED WatcherLoop)
    /\ (res = "err" /\ Len(events) = MaxEvents) ~> (Len(events) < MaxEvents)

\* a call of the index thread has failed and the channel is full of the
\* events that came after
C31_Witness ==
    /\ res = "err"
    /\ pc = "idle"
    /\ faults > 0
    /\ Len(events) = MaxEvents
\* update_file returns an error in this step, from its read or its
\* add_document, or from its commit
UpdateFails ==
    /\ call'.op = "update"
    /\ res' = "err"
    /\ pc' = "idle"
    /\ \/ pc = "idle" /\ (faults' # faults \/ call' # call)
       \/ pc = "update_commit"

\* C38: a failed update_file leaves nothing behind.  When update_file
\* returns an error before its commit has succeeded, the writer holds what
\* it held before the call: neither the delete nor the add of the call
\* stays queued; and the commit of a call changes the documents of its own
\* path only.
C38_FailedUpdateLeavesNothing ==
    /\ [][UpdateFails =>
            IF pc = "idle"
            THEN writer' = writer
            ELSE writer' = SubSeq(writer, 1, Len(writer) - 2)]_vars
    /\ [][(Commits /\ Running) =>
            Others(committed', KeyOf(call.path)) =
                Others(committed, KeyOf(call.path))]_vars
\* C39: what is served is what was checked.  When handle_path answers a
\* request that has passed the containment check with the content of a
\* file or a directory, that file or directory is the canonical path the
\* check looked at, whatever has become of the file system in between.
C39_ServedIsChecked ==
    [][(checked # NoRequest /\ Served(response')) =>
            response'.source = checked.canonical_path]_vars
----------------------------------------------------------------------------
(* Properties of the reload notifier.                                      *)

\* the callback sends the reload signal in this step
Signals == Len(signals') > Len(signals)

\* C40: the shared HTML is replaced before the reload signal is sent.
\* When the callback sends the signal, the shared HTML is the rendering it
\* made for this batch, read no earlier than the newest change of the
\* batch; a callback that cannot read the file replaces nothing and sends
\* nothing; and the HTML a viewer has fetched after a signal is not older
\* than the change the signal was sent for.
C40_HtmlBeforeSignal ==
    /\ [][Signals =>
            /\ shared_html = callback.html
            /\ shared_html.of >= callback.cause
            /\ signals' = Append(signals, callback.cause)]_vars
    /\ [][(debounced # <<>> /\ debounced' = <<>> /\ ~previewed.readable) =>
            UNCHANGED <<shared_html, signals, callback>>]_vars
    /\ [](~viewer.fetching => viewer.html.of >= viewer.cause)

\* the file was changed twice within one batch, and the viewer has taken
\* the signal of the batch and fetched the rendering of the second change
C40_Witness ==
    /\ viewer.cause = 2
    /\ ~viewer.fetching
    /\ viewer.html = to_html(2)
    /\ signals = <<>>
    /\ previewed.rev = 2

====
